---- MODULE Spec2Model ----
(***************************************************************************)
(* Vorentlastungshilfe (src/ins4.py): the vocabulary-list parser           *)
(* VokabelPDFParser and the dictionary lookup OmegaWortschatz.             *)
(*                                                                         *)
(* A Python str is modelled as the sequence of its Unicode code points, so *)
(* that strip, split, the regular expressions and the accent map act on    *)
(* characters exactly as the code does.  The Greek text after a "\*" on a  *)
(* data line is the string the code points spell.                          *)
(***************************************************************************)
EXTENDS Integers, Sequences, FiniteSets, TLC

(***************************************************************************)
(* Strings                                                                 *)
(***************************************************************************)

Min(S) == CHOOSE x \in S : \A y \in S : x <= y
Max(S) == CHOOSE x \in S : \A y \in S : x >= y

(* The characters str.strip() removes (str.isspace). *)
Whitespace ==
  (9..13) \cup (28..32) \cup {133, 160, 5760} \cup (8192..8202)
    \cup {8232, 8233, 8239, 8287, 12288}

(* str.strip() *)
strip(s) ==
  LET keep == {i \in 1..Len(s) : s[i] \notin Whitespace}
  IN  IF keep = {} THEN <<>> ELSE SubSeq(s, Min(keep), Max(keep))

(* str.split(sep) for a one-character separator: always at least one piece. *)
RECURSIVE split(_, _)
split(s, sep) ==
  LET at == {i \in 1..Len(s) : s[i] = sep}
  IN  IF at = {} THEN <<s>>
      ELSE <<SubSeq(s, 1, Min(at) - 1)>> \o split(SubSeq(s, Min(at) + 1, Len(s)), sep)

split_bedeutungen_ohne_strip(bedeutung) == split(bedeutung, 59)
(* [b.strip() for b in bedeutung.split(';')] *)
split_bedeutungen(bedeutung) ==
  LET teile == split(bedeutung, 59)
  IN  [i \in 1..Len(teile) |-> strip(teile[i])]

(* '; '.join(xs) *)
RECURSIVE join(_)
join(xs) ==
  IF xs = <<>> THEN <<>>
  ELSE IF Len(xs) = 1 THEN xs[1]
  ELSE xs[1] \o <<59, 32>> \o join(Tail(xs))

(***************************************************************************)
(* OmegaWortschatz: static data                                            *)
(***************************************************************************)

(* accent_map of _remove_accents: <<accented code point, base code point>>. *)
accent_map ==
  {
    <<940, 945>>, <<8048, 945>>, <<7936, 945>>, <<7937, 945>>, <<7938, 945>>, <<7939, 945>>,   \* ά ὰ ἀ ἁ ἂ ἃ
    <<7940, 945>>, <<7941, 945>>, <<941, 949>>, <<8050, 949>>, <<7952, 949>>, <<7953, 949>>,   \* ἄ ἅ έ ὲ ἐ ἑ
    <<7954, 949>>, <<7955, 949>>, <<7956, 949>>, <<7957, 949>>, <<942, 951>>, <<8052, 951>>,   \* ἒ ἓ ἔ ἕ ή ὴ
    <<7968, 951>>, <<7969, 951>>, <<7970, 951>>, <<7971, 951>>, <<7972, 951>>, <<7973, 951>>,   \* ἠ ἡ ἢ ἣ ἤ ἥ
    <<943, 953>>, <<8054, 953>>, <<7984, 953>>, <<7985, 953>>, <<7986, 953>>, <<7987, 953>>,   \* ί ὶ ἰ ἱ ἲ ἳ
    <<7988, 953>>, <<7989, 953>>, <<972, 959>>, <<8056, 959>>, <<8000, 959>>, <<8001, 959>>,   \* ἴ ἵ ό ὸ ὀ ὁ
    <<8002, 959>>, <<8003, 959>>, <<8004, 959>>, <<8005, 959>>, <<973, 965>>, <<8058, 965>>,   \* ὂ ὃ ὄ ὅ ύ ὺ
    <<8016, 965>>, <<8017, 965>>, <<8018, 965>>, <<8019, 965>>, <<8020, 965>>, <<8021, 965>>,   \* ὐ ὑ ὒ ὓ ὔ ὕ
    <<974, 969>>, <<8060, 969>>, <<8032, 969>>, <<8033, 969>>, <<8034, 969>>, <<8035, 969>>,   \* ώ ὼ ὠ ὡ ὢ ὣ
    <<8036, 969>>, <<8037, 969>>, <<912, 953>>, <<8146, 953>>, <<8151, 953>>, <<944, 965>>,   \* ὤ ὥ ΐ ῒ ῗ ΰ
    <<8162, 965>>, <<8167, 965>>, <<8118, 945>>, <<8134, 951>>, <<8150, 953>>, <<8166, 965>>,   \* ῢ ῧ ᾶ ῆ ῖ ῦ
    <<8182, 969>>   \* ῶ
  }

(* The dict literal of _build_synonyme, pair by pair in source order
   (the first pair is written twice in the source). *)
synonyme_literal ==
  <<
    << <<957, 972, 959, 962>>, <<957, 959, 8166, 962>> >>,   \* νόος -> νοῦς
    << <<957, 972, 959, 962>>, <<957, 959, 8166, 962>> >>,   \* νόος -> νοῦς
    << <<7952, 963, 952, 943, 969>>, <<7956, 963, 952, 969>> >>,   \* ἐσθίω -> ἔσθω
    << <<918, 949, 973, 962>>, <<918, 949, 973, 962>> >>,   \* Ζεύς -> Ζεύς
    << <<7952, 940, 969>>, <<7952, 940, 969>> >>,   \* ἐάω -> ἐάω
    << <<952, 941, 955, 969>>, <<7952, 952, 941, 955, 969>> >>,   \* θέλω -> ἐθέλω
    << <<946, 953, 972, 969>>, <<950, 940, 969>> >>,   \* βιόω -> ζάω
    << <<947, 8134>>, <<947, 945, 8150, 945>> >>,   \* γῆ -> γαῖα
    << <<952, 940, 955, 945, 964, 964, 945>>, <<952, 940, 955, 945, 963, 963, 945>> >>,   \* θάλαττα -> θάλασσα
    << <<960, 955, 949, 943, 969, 957>>, <<960, 955, 941, 969, 957>> >>,   \* πλείων -> πλέων
    << <<963, 956, 953, 954, 961, 972, 962>>, <<956, 953, 954, 961, 972, 962>> >>,   \* σμικρός -> μικρός
    << <<958, 973, 957>>, <<963, 973, 957>> >>,   \* ξύν -> σύν
    << <<964, 941, 963, 963, 945, 961, 949, 962>>, <<964, 941, 964, 964, 945, 961, 949, 962>> >>   \* τέσσαρες -> τέτταρες
  >>

(* The entries of _build_dictionary in insertion order:
   << key, << bedeutung, stammformen, zusatz >> >>, every string as its code points. *)
vocab_literal ==
  <<
    << <<7936, 947, 945, 952, 972, 962>>, << <<103, 117, 116, 44, 32, 97, 110, 115, 116, 228, 110, 100, 105, 103>>, <<7936, 947, 945, 952, 972, 962, 44, 32, 942, 44, 32, 972, 957>>, <<51, 32, 83, 116, 101, 105, 103, 101, 114, 117, 110, 103, 115, 114, 101, 105, 104, 101, 110, 58, 32, 49, 41, 32, 7936, 956, 949, 943, 957, 969, 957, 47, 7940, 956, 949, 953, 957, 959, 957, 44, 32, 7940, 961, 953, 963, 964, 959, 962, 59, 32, 50, 41, 32, 954, 961, 949, 943, 964, 964, 969, 957, 47, 954, 961, 949, 8150, 964, 964, 959, 957, 44, 32, 954, 961, 940, 964, 953, 963, 964, 959, 962, 59, 32, 51, 41, 32, 946, 949, 955, 964, 943, 969, 957, 47, 946, 941, 955, 964, 953, 959, 957, 44, 32, 946, 941, 955, 964, 953, 963, 964, 959, 962, 46, 32, 964, 8056, 32, 7936, 947, 945, 952, 972, 957, 32, 45, 32, 100, 97, 115, 32, 71, 117, 116, 101, 59, 32, 964, 8048, 32, 7936, 947, 945, 952, 940, 32, 45, 32, 100, 105, 101, 32, 71, 252, 116, 101, 114>> >> >>,   \* ἀγαθός
    << <<7936, 947, 945, 957, 945, 954, 964, 941, 969>>, << <<115, 105, 99, 104, 32, 228, 114, 103, 101, 114, 110, 44, 32, 117, 110, 119, 105, 108, 108, 105, 103, 32, 115, 101, 105, 110>>, <<7936, 947, 945, 957, 945, 954, 964, 941, 969>>, <<>> >> >>,   \* ἀγανακτέω
    << <<7936, 947, 947, 941, 955, 955, 969>>, << <<109, 101, 108, 100, 101, 110, 44, 32, 98, 101, 114, 105, 99, 104, 116, 101, 110>>, <<7936, 947, 947, 941, 955, 955, 969, 44, 32, 7936, 947, 947, 949, 955, 8182, 44, 32, 7972, 947, 947, 949, 953, 955, 945, 44, 32, 7972, 947, 947, 949, 955, 954, 945, 44, 32, 7972, 947, 947, 949, 955, 956, 945, 953, 44, 32, 7972, 947, 947, 949, 955, 952, 951, 957>>, <<>> >> >>,   \* ἀγγέλλω
    << <<7940, 947, 947, 949, 955, 959, 962>>, << <<66, 111, 116, 101>>, <<7940, 947, 947, 949, 955, 959, 962, 44, 32, 959, 965, 44, 32, 8001>>, <<>> >> >>,   \* ἄγγελος
    << <<7936, 947, 957, 959, 941, 969>>, << <<110, 105, 99, 104, 116, 32, 119, 105, 115, 115, 101, 110, 44, 32, 110, 105, 99, 104, 116, 32, 107, 101, 110, 110, 101, 110>>, <<7936, 947, 957, 959, 941, 969>>, <<>> >> >>,   \* ἀγνοέω
    << <<7936, 947, 959, 961, 940>>, << <<77, 97, 114, 107, 116, 112, 108, 97, 116, 122, 44, 32, 86, 101, 114, 115, 97, 109, 109, 108, 117, 110, 103>>, <<7936, 947, 959, 961, 940, 44, 32, 8118, 962, 44, 32, 7969>>, <<>> >> >>,   \* ἀγορά
    << <<7936, 947, 961, 972, 962>>, << <<65, 99, 107, 101, 114, 44, 32, 70, 101, 108, 100>>, <<7936, 947, 961, 972, 962, 44, 32, 959, 8166, 44, 32, 8001>>, <<>> >> >>,   \* ἀγρός
    << <<7940, 947, 969>>, << <<102, 252, 104, 114, 101, 110, 44, 32, 116, 114, 101, 105, 98, 101, 110, 59, 32, 122, 105, 101, 104, 101, 110, 44, 32, 109, 97, 114, 115, 99, 104, 105, 101, 114, 101, 110>>, <<7940, 947, 969, 44, 32, 7940, 958, 969, 44, 32, 7972, 947, 945, 947, 959, 957, 44, 32, 7974, 967, 945, 44, 32, 7972, 947, 956, 945, 953, 44, 32, 7972, 967, 952, 951, 957>>, <<>> >> >>,   \* ἄγω
    << <<7936, 947, 974, 957>>, << <<87, 101, 116, 116, 107, 97, 109, 112, 102, 44, 32, 75, 97, 109, 112, 102, 59, 32, 80, 114, 111, 122, 101, 115, 115>>, <<7936, 947, 974, 957, 44, 32, 8182, 957, 959, 962, 44, 32, 8001>>, <<>> >> >>,   \* ἀγών
    << <<7936, 948, 949, 955, 966, 972, 962>>, << <<66, 114, 117, 100, 101, 114>>, <<7936, 948, 949, 955, 966, 972, 962, 44, 32, 959, 8166, 44, 32, 8001>>, <<>> >> >>,   \* ἀδελφός
    << <<7936, 948, 953, 954, 941, 969>>, << <<85, 110, 114, 101, 99, 104, 116, 32, 116, 117, 110>>, <<7936, 948, 953, 954, 941, 969, 44, 32, 7936, 948, 953, 954, 942, 963, 969, 44, 32, 7968, 948, 943, 954, 951, 963, 945, 44, 32, 7968, 948, 943, 954, 951, 954, 945, 44, 32, 7968, 948, 943, 954, 951, 956, 945, 953, 44, 32, 7968, 948, 953, 954, 942, 952, 951, 957>>, <<>> >> >>,   \* ἀδικέω
    << <<7936, 948, 953, 954, 943, 945>>, << <<85, 110, 114, 101, 99, 104, 116, 44, 32, 85, 110, 103, 101, 114, 101, 99, 104, 116, 105, 103, 107, 101, 105, 116>>, <<7936, 948, 953, 954, 943, 945, 44, 32, 945, 962, 44, 32, 7969>>, <<>> >> >>,   \* ἀδικία
    << <<7940, 948, 953, 954, 959, 962>>, << <<117, 110, 103, 101, 114, 101, 99, 104, 116, 44, 32, 117, 110, 114, 101, 99, 104, 116>>, <<7940, 948, 953, 954, 959, 962, 44, 32, 959, 957>>, <<>> >> >>,   \* ἄδικος
    << <<7936, 948, 973, 957, 945, 964, 959, 962>>, << <<117, 110, 102, 228, 104, 105, 103, 44, 32, 109, 97, 99, 104, 116, 108, 111, 115, 59, 32, 117, 110, 109, 246, 103, 108, 105, 99, 104>>, <<7936, 948, 973, 957, 945, 964, 959, 962, 44, 32, 959, 957>>, <<>> >> >>,   \* ἀδύνατος
    << <<8068, 948, 969>>, << <<115, 105, 110, 103, 101, 110, 44, 32, 98, 101, 115, 105, 110, 103, 101, 110>>, <<8068, 948, 969>>, <<>> >> >>,   \* ᾄδω
    << <<7936, 949, 943>>, << <<105, 109, 109, 101, 114, 59, 32, 106, 101, 119, 101, 105, 108, 115>>, <<7936, 949, 943>>, <<>> >> >>,   \* ἀεί
    << <<7936, 952, 940, 957, 945, 964, 959, 962>>, << <<117, 110, 115, 116, 101, 114, 98, 108, 105, 99, 104>>, <<7936, 952, 940, 957, 945, 964, 959, 962, 44, 32, 959, 957>>, <<>> >> >>,   \* ἀθάνατος
    << <<7940, 952, 955, 953, 959, 962>>, << <<101, 108, 101, 110, 100, 44, 32, 117, 110, 103, 108, 252, 99, 107, 108, 105, 99, 104>>, <<7940, 952, 955, 953, 959, 962, 44, 32, 945, 44, 32, 959, 957>>, <<>> >> >>,   \* ἄθλιος
    << <<7940, 952, 955, 959, 962>>, << <<87, 101, 116, 116, 107, 97, 109, 112, 102, 59, 32, 77, 252, 104, 101>>, <<7940, 952, 955, 959, 962, 44, 32, 959, 965, 44, 32, 8001>>, <<>> >> >>,   \* ἄθλος
    << <<945, 7984, 948, 941, 959, 956, 945, 953>>, << <<115, 99, 104, 101, 117, 101, 110, 44, 32, 69, 104, 114, 102, 117, 114, 99, 104, 116, 32, 104, 97, 98, 101, 110, 59, 32, 114, 101, 115, 112, 101, 107, 116, 105, 101, 114, 101, 110>>, <<945, 7984, 948, 941, 959, 956, 945, 953, 44, 32, 945, 7984, 948, 941, 963, 959, 956, 945, 953, 44, 32, 7968, 948, 941, 963, 952, 951, 957>>, <<>> >> >>,   \* αἰδέομαι
    << <<945, 7984, 948, 974, 962>>, << <<83, 99, 104, 97, 109, 59, 32, 69, 104, 114, 102, 117, 114, 99, 104, 116>>, <<945, 7984, 948, 974, 962, 44, 32, 972, 959, 962, 44, 32, 7969>>, <<>> >> >>,   \* αἰδώς
    << <<945, 7985, 961, 941, 969>>, << <<110, 101, 104, 109, 101, 110, 44, 32, 101, 114, 103, 114, 101, 105, 102, 101, 110, 59, 32, 122, 117, 32, 70, 97, 108, 108, 32, 98, 114, 105, 110, 103, 101, 110, 59, 32, 77, 46, 32, 115, 105, 99, 104, 32, 110, 101, 104, 109, 101, 110, 44, 32, 119, 228, 104, 108, 101, 110>>, <<945, 7985, 961, 941, 969, 44, 32, 945, 7985, 961, 942, 963, 969, 44, 32, 949, 7991, 955, 959, 957, 44, 32, 8085, 961, 951, 954, 945, 44, 32, 8085, 961, 951, 956, 945, 953, 44, 32, 7969, 961, 941, 952, 951, 957>>, <<>> >> >>,   \* αἱρέω
    << <<945, 7988, 961, 969>>, << <<104, 111, 99, 104, 104, 101, 98, 101, 110, 44, 32, 97, 117, 102, 104, 101, 98, 101, 110, 59, 32, 97, 98, 115, 101, 103, 101, 108, 110, 44, 32, 97, 117, 102, 98, 114, 101, 99, 104, 101, 110>>, <<945, 7988, 961, 969, 44, 32, 7936, 961, 8182, 44, 32, 7974, 961, 945, 44, 32, 7974, 961, 954, 945, 44, 32, 7974, 961, 956, 945, 953, 44, 32, 7974, 961, 952, 951, 957>>, <<>> >> >>,   \* αἴρω
    << <<945, 7984, 963, 952, 940, 957, 959, 956, 945, 953>>, << <<119, 97, 104, 114, 110, 101, 104, 109, 101, 110, 44, 32, 109, 101, 114, 107, 101, 110>>, <<945, 7984, 963, 952, 940, 957, 959, 956, 945, 953, 44, 32, 945, 7984, 963, 952, 942, 963, 959, 956, 945, 953, 44, 32, 8080, 963, 952, 972, 956, 951, 957, 44, 32, 8084, 963, 952, 951, 956, 945, 953>>, <<>> >> >>,   \* αἰσθάνομαι
    << <<945, 7984, 963, 967, 961, 972, 962>>, << <<104, 228, 115, 115, 108, 105, 99, 104, 59, 32, 115, 99, 104, 228, 110, 100, 108, 105, 99, 104>>, <<945, 7984, 963, 967, 961, 972, 962, 44, 32, 940, 44, 32, 972, 957>>, <<>> >> >>,   \* αἰσχρός
    << <<945, 7984, 963, 967, 973, 957, 959, 956, 945, 953>>, << <<115, 105, 99, 104, 32, 115, 99, 104, 228, 109, 101, 110, 59, 32, 114, 101, 115, 112, 101, 107, 116, 105, 101, 114, 101, 110>>, <<945, 7984, 963, 967, 973, 957, 959, 956, 945, 953, 44, 32, 945, 7984, 963, 967, 965, 957, 959, 8166, 956, 945, 953, 44, 32, 8080, 963, 967, 973, 957, 952, 951, 957, 44, 32, 8084, 963, 967, 965, 956, 956, 945, 953>>, <<>> >> >>,   \* αἰσχύνομαι
    << <<945, 7984, 964, 941, 969>>, << <<102, 111, 114, 100, 101, 114, 110, 44, 32, 118, 101, 114, 108, 97, 110, 103, 101, 110>>, <<945, 7984, 964, 941, 969, 44, 32, 945, 7984, 964, 942, 963, 969, 44, 32, 8084, 964, 951, 963, 945, 44, 32, 8084, 964, 951, 954, 945, 44, 32, 8084, 964, 951, 956, 945, 953, 44, 32, 8080, 964, 942, 952, 951, 957>>, <<>> >> >>,   \* αἰτέω
    << <<945, 7984, 964, 943, 945>>, << <<71, 114, 117, 110, 100, 44, 32, 85, 114, 115, 97, 99, 104, 101, 59, 32, 83, 99, 104, 117, 108, 100>>, <<945, 7984, 964, 943, 945, 44, 32, 945, 962, 44, 32, 7969>>, <<>> >> >>,   \* αἰτία
    << <<945, 7988, 964, 953, 959, 962>>, << <<115, 99, 104, 117, 108, 100, 44, 32, 115, 99, 104, 117, 108, 100, 105, 103, 59, 32, 85, 114, 104, 101, 98, 101, 114>>, <<945, 7988, 964, 953, 959, 962, 44, 32, 945, 44, 32, 959, 957>>, <<>> >> >>,   \* αἴτιος
    << <<7936, 954, 959, 942>>, << <<71, 101, 104, 246, 114, 59, 32, 71, 101, 114, 252, 99, 104, 116>>, <<7936, 954, 959, 942, 44, 32, 8134, 962, 44, 32, 7969>>, <<>> >> >>,   \* ἀκοή
    << <<7936, 954, 959, 955, 959, 965, 952, 941, 969>>, << <<102, 111, 108, 103, 101, 110>>, <<7936, 954, 959, 955, 959, 965, 952, 941, 969>>, <<>> >> >>,   \* ἀκολουθέω
    << <<7936, 954, 959, 973, 969>>, << <<104, 246, 114, 101, 110>>, <<7936, 954, 959, 973, 969, 44, 32, 7936, 954, 959, 973, 963, 959, 956, 945, 953, 44, 32, 7972, 954, 959, 965, 963, 945, 44, 32, 7936, 954, 942, 954, 959, 945, 44, 32, 7968, 954, 959, 973, 963, 952, 951, 957>>, <<>> >> >>,   \* ἀκούω
    << <<7936, 954, 961, 953, 946, 942, 962>>, << <<115, 111, 114, 103, 102, 228, 108, 116, 105, 103, 44, 32, 103, 101, 110, 97, 117>>, <<7936, 954, 961, 953, 946, 942, 962, 44, 32, 941, 962>>, <<>> >> >>,   \* ἀκριβής
    << <<7940, 954, 969, 957>>, << <<117, 110, 102, 114, 101, 105, 119, 105, 108, 108, 105, 103, 44, 32, 117, 110, 103, 101, 114, 110>>, <<7940, 954, 969, 957, 44, 32, 7940, 954, 959, 965, 963, 945, 44, 32, 7940, 954, 959, 957>>, <<>> >> >>,   \* ἄκων
    << <<7936, 955, 942, 952, 949, 953, 945>>, << <<87, 97, 104, 114, 104, 101, 105, 116>>, <<7936, 955, 942, 952, 949, 953, 945, 44, 32, 945, 962, 44, 32, 7969>>, <<>> >> >>,   \* ἀλήθεια
    << <<7936, 955, 951, 952, 942, 962>>, << <<119, 97, 104, 114, 44, 32, 119, 97, 104, 114, 104, 97, 102, 116, 105, 103>>, <<7936, 955, 951, 952, 942, 962, 44, 32, 941, 962>>, <<>> >> >>,   \* ἀληθής
    << <<7936, 955, 943, 963, 954, 959, 956, 945, 953>>, << <<103, 101, 102, 97, 110, 103, 101, 110, 32, 119, 101, 114, 100, 101, 110, 59, 32, 252, 98, 101, 114, 102, 252, 104, 114, 116, 32, 119, 101, 114, 100, 101, 110>>, <<7936, 955, 943, 963, 954, 959, 956, 945, 953, 44, 32, 7937, 955, 974, 963, 959, 956, 945, 953, 44, 32, 7953, 940, 955, 969, 957, 44, 32, 7953, 940, 955, 969, 954, 945>>, <<>> >> >>,   \* ἀλίσκομαι
    << <<7936, 955, 955, 940>>, << <<97, 98, 101, 114, 59, 32, 115, 111, 110, 100, 101, 114, 110>>, <<7936, 955, 955, 940>>, <<>> >> >>,   \* ἀλλά
    << <<7936, 955, 955, 942, 955, 969, 957>>, << <<101, 105, 110, 97, 110, 100, 101, 114, 44, 32, 103, 101, 103, 101, 110, 115, 101, 105, 116, 105, 103>>, <<7936, 955, 955, 942, 955, 969, 957, 44, 32, 45, 959, 953, 962, 47, 45, 945, 953, 962, 44, 32, 45, 959, 965, 962, 47, 45, 945, 962, 47, 45, 945>>, <<>> >> >>,   \* ἀλλήλων
    << <<7940, 955, 955, 959, 962>>, << <<101, 105, 110, 32, 97, 110, 100, 101, 114, 101, 114>>, <<7940, 955, 955, 959, 962, 44, 32, 951, 44, 32, 959>>, <<>> >> >>,   \* ἄλλος
    << <<7941, 956, 945>>, << <<122, 117, 103, 108, 101, 105, 99, 104, 59, 32, 122, 117, 115, 97, 109, 109, 101, 110, 32, 109, 105, 116, 59, 32, 119, 228, 104, 114, 101, 110, 100>>, <<7941, 956, 945>>, <<>> >> >>,   \* ἅμα
    << <<7936, 956, 945, 952, 942, 962>>, << <<117, 110, 103, 101, 98, 105, 108, 100, 101, 116, 44, 32, 117, 110, 119, 105, 115, 115, 101, 110, 100>>, <<7936, 956, 945, 952, 942, 962, 44, 32, 941, 962>>, <<>> >> >>,   \* ἀμαθής
    << <<7937, 956, 945, 961, 964, 940, 957, 969>>, << <<118, 101, 114, 102, 101, 104, 108, 101, 110, 44, 32, 102, 97, 108, 115, 99, 104, 32, 109, 97, 99, 104, 101, 110, 59, 32, 115, 252, 110, 100, 105, 103, 101, 110>>, <<7937, 956, 945, 961, 964, 940, 957, 969, 44, 32, 7937, 956, 945, 961, 964, 942, 963, 959, 956, 945, 953, 44, 32, 7973, 956, 945, 961, 964, 959, 957, 44, 32, 7969, 956, 940, 961, 964, 951, 954, 945, 44, 32, 7969, 956, 940, 961, 964, 951, 956, 945, 953, 44, 32, 7969, 956, 945, 961, 964, 942, 952, 951, 957>>, <<>> >> >>,   \* ἁμαρτάνω
    << <<7937, 956, 945, 961, 964, 943, 945>>, << <<70, 101, 104, 108, 101, 114, 44, 32, 86, 101, 114, 102, 101, 104, 108, 117, 110, 103>>, <<7937, 956, 945, 961, 964, 943, 945, 44, 32, 945, 962, 44, 32, 7969>>, <<>> >> >>,   \* ἁμαρτία
    << <<7936, 956, 949, 955, 941, 969>>, << <<115, 105, 99, 104, 32, 110, 105, 99, 104, 116, 32, 107, 252, 109, 109, 101, 114, 110, 59, 32, 118, 101, 114, 110, 97, 99, 104, 108, 228, 115, 115, 105, 103, 101, 110>>, <<7936, 956, 949, 955, 941, 969>>, <<>> >> >>,   \* ἀμελέω
    << <<7936, 956, 973, 957, 969>>, << <<97, 98, 119, 101, 104, 114, 101, 110, 44, 32, 102, 101, 114, 110, 104, 97, 108, 116, 101, 110, 59, 32, 104, 101, 108, 102, 101, 110, 59, 32, 77, 46, 32, 115, 105, 99, 104, 32, 118, 101, 114, 116, 101, 105, 100, 105, 103, 101, 110>>, <<7936, 956, 973, 957, 969, 44, 32, 7936, 956, 965, 957, 8182, 44, 32, 7972, 956, 965, 957, 945>>, <<>> >> >>,   \* ἀμύνω
    << <<7936, 956, 966, 943>>, << <<117, 109, 46, 46, 46, 104, 101, 114, 117, 109>>, <<7936, 956, 966, 943>>, <<>> >> >>,   \* ἀμφί
    << <<7936, 956, 966, 953, 963, 946, 951, 964, 941, 969>>, << <<98, 101, 115, 116, 114, 101, 105, 116, 101, 110, 44, 32, 115, 105, 99, 104, 32, 115, 116, 114, 101, 105, 116, 101, 110, 59, 32, 98, 101, 104, 97, 117, 112, 116, 101, 110>>, <<7936, 956, 966, 953, 963, 946, 951, 964, 941, 969>>, <<>> >> >>,   \* ἀμφισβητέω
    << <<7936, 956, 966, 972, 964, 949, 961, 959, 953>>, << <<98, 101, 105, 100, 101>>, <<7936, 956, 966, 972, 964, 949, 961, 959, 953, 44, 32, 945, 953, 44, 32, 945>>, <<>> >> >>,   \* ἀμφότεροι
    << <<7940, 957>>, << <<77, 111, 100, 97, 108, 112, 97, 114, 116, 105, 107, 101, 108>>, <<7940, 957>>, <<80, 111, 116, 101, 110, 116, 105, 97, 108, 105, 115, 32, 40, 79, 112, 116, 97, 116, 105, 118, 41, 44, 32, 73, 114, 114, 101, 97, 108, 105, 115, 32, 40, 73, 110, 100, 46, 32, 73, 109, 112, 102, 46, 47, 65, 111, 114, 46, 41, 44, 32, 73, 116, 101, 114, 97, 116, 105, 118, 47, 69, 118, 101, 110, 116, 117, 97, 108, 105, 115, 32, 40, 75, 111, 110, 106, 117, 110, 107, 116, 105, 118, 41>> >> >>,   \* ἄν
    << <<7936, 957, 940>>, << <<252, 98, 101, 114, 46, 46, 46, 104, 105, 110, 59, 32, 104, 105, 110, 97, 117, 102, 59, 32, 119, 228, 104, 114, 101, 110, 100>>, <<7936, 957, 940>>, <<>> >> >>,   \* ἀνά
    << <<7936, 957, 945, 947, 953, 947, 957, 974, 963, 954, 969>>, << <<108, 101, 115, 101, 110, 44, 32, 118, 111, 114, 108, 101, 115, 101, 110>>, <<7936, 957, 945, 947, 953, 947, 957, 974, 963, 954, 969>>, <<>> >> >>,   \* ἀναγιγνώσκω
    << <<7936, 957, 945, 947, 954, 940, 950, 969>>, << <<122, 119, 105, 110, 103, 101, 110>>, <<7936, 957, 945, 947, 954, 940, 950, 969>>, <<>> >> >>,   \* ἀναγκάζω
    << <<7936, 957, 945, 947, 954, 945, 8150, 959, 962>>, << <<110, 111, 116, 119, 101, 110, 100, 105, 103>>, <<7936, 957, 945, 947, 954, 945, 8150, 959, 962, 44, 32, 945, 44, 32, 959, 957>>, <<>> >> >>,   \* ἀναγκαῖος
    << <<7936, 957, 940, 947, 954, 951>>, << <<78, 111, 116, 119, 101, 110, 100, 105, 103, 107, 101, 105, 116, 44, 32, 90, 119, 97, 110, 103>>, <<7936, 957, 940, 947, 954, 951, 44, 32, 951, 962, 44, 32, 7969>>, <<>> >> >>,   \* ἀνάγκη
    << <<7936, 957, 945, 955, 945, 956, 946, 940, 957, 969>>, << <<97, 117, 102, 110, 101, 104, 109, 101, 110>>, <<7936, 957, 945, 955, 945, 956, 946, 940, 957, 969>>, <<>> >> >>,   \* ἀναλαμβάνω
    << <<7936, 957, 945, 956, 953, 956, 957, 942, 963, 954, 969>>, << <<101, 114, 105, 110, 110, 101, 114, 110, 59, 32, 77, 46, 32, 115, 105, 99, 104, 32, 101, 114, 105, 110, 110, 101, 114, 110>>, <<7936, 957, 945, 956, 953, 956, 957, 942, 963, 954, 969>>, <<>> >> >>,   \* ἀναμιμνήσκω
    << <<7936, 957, 948, 961, 949, 943, 945>>, << <<84, 97, 112, 102, 101, 114, 107, 101, 105, 116>>, <<7936, 957, 948, 961, 949, 943, 945, 44, 32, 945, 962, 44, 32, 7969>>, <<>> >> >>,   \* ἀνδρεία
    << <<7936, 957, 948, 961, 949, 8150, 959, 962>>, << <<116, 97, 112, 102, 101, 114>>, <<7936, 957, 948, 961, 949, 8150, 959, 962, 44, 32, 945, 44, 32, 959, 957>>, <<>> >> >>,   \* ἀνδρεῖος
    << <<7940, 957, 949, 965>>, << <<111, 104, 110, 101>>, <<7940, 957, 949, 965>>, <<>> >> >>,   \* ἄνευ
    << <<7936, 957, 942, 961>>, << <<77, 97, 110, 110>>, <<7936, 957, 942, 961, 44, 32, 7936, 957, 948, 961, 972, 962, 44, 32, 8001>>, <<>> >> >>,   \* ἀνήρ
    << <<7936, 957, 952, 961, 974, 960, 949, 953, 959, 962>>, << <<109, 101, 110, 115, 99, 104, 108, 105, 99, 104>>, <<7936, 957, 952, 961, 974, 960, 949, 953, 959, 962, 44, 32, 945, 44, 32, 959, 957>>, <<>> >> >>,   \* ἀνθρώπειος
    << <<7940, 957, 952, 961, 969, 960, 959, 962>>, << <<77, 101, 110, 115, 99, 104>>, <<7940, 957, 952, 961, 969, 960, 959, 962, 44, 32, 959, 965, 44, 32, 8001>>, <<>> >> >>,   \* ἄνθρωπος
    << <<7936, 957, 943, 951, 956, 953>>, << <<108, 111, 115, 108, 97, 115, 115, 101, 110, 59, 32, 110, 97, 99, 104, 108, 97, 115, 115, 101, 110>>, <<7936, 957, 943, 951, 956, 953>>, <<>> >> >>,   \* ἀνίημι
    << <<7936, 957, 943, 963, 964, 951, 956, 953>>, << <<97, 117, 102, 115, 116, 101, 108, 108, 101, 110, 59, 32, 77, 46, 32, 97, 117, 102, 115, 116, 101, 104, 101, 110, 44, 32, 115, 105, 99, 104, 32, 101, 114, 104, 101, 98, 101, 110>>, <<7936, 957, 943, 963, 964, 951, 956, 953>>, <<>> >> >>,   \* ἀνίστημι
    << <<7936, 957, 972, 951, 964, 959, 962>>, << <<117, 110, 118, 101, 114, 110, 252, 110, 102, 116, 105, 103>>, <<7936, 957, 972, 951, 964, 959, 962, 44, 32, 959, 957>>, <<>> >> >>,   \* ἀνόητος
    << <<7936, 957, 972, 963, 953, 959, 962>>, << <<103, 111, 116, 116, 108, 111, 115, 59, 32, 117, 110, 114, 101, 99, 104, 116>>, <<7936, 957, 972, 963, 953, 959, 962, 44, 32, 945, 44, 32, 959, 957>>, <<>> >> >>,   \* ἀνόσιος
    << <<7936, 957, 964, 943>>, << <<97, 110, 115, 116, 101, 108, 108, 101, 32, 118, 111, 110>>, <<7936, 957, 964, 943>>, <<>> >> >>,   \* ἀντί
    << <<7940, 958, 953, 959, 962>>, << <<119, 252, 114, 100, 105, 103, 44, 32, 119, 101, 114, 116, 59, 32, 97, 110, 103, 101, 109, 101, 115, 115, 101, 110, 44, 32, 114, 105, 99, 104, 116, 105, 103>>, <<7940, 958, 953, 959, 962, 44, 32, 943, 945, 44, 32, 953, 959, 957>>, <<>> >> >>,   \* ἄξιος
    << <<7936, 958, 953, 972, 969>>, << <<102, 252, 114, 32, 119, 252, 114, 100, 105, 103, 32, 104, 97, 108, 116, 101, 110, 59, 32, 102, 111, 114, 100, 101, 114, 110, 59, 32, 103, 108, 97, 117, 98, 101, 110>>, <<7936, 958, 953, 972, 969, 44, 32, 7936, 958, 953, 974, 963, 969, 44, 32, 7968, 958, 943, 969, 963, 945, 44, 32, 7968, 958, 943, 969, 954, 945, 44, 32, 7968, 958, 943, 969, 956, 945, 953, 44, 32, 7968, 958, 953, 974, 952, 951, 957>>, <<>> >> >>,   \* ἀξιόω
    << <<7936, 960, 945, 955, 955, 940, 964, 964, 969>>, << <<101, 110, 116, 102, 101, 114, 110, 101, 110, 59, 32, 98, 101, 102, 114, 101, 105, 101, 110>>, <<7936, 960, 945, 955, 955, 940, 964, 964, 969, 44, 32, 7936, 960, 945, 955, 955, 940, 958, 969, 44, 32, 7936, 960, 942, 955, 955, 945, 958, 945, 44, 32, 7936, 960, 942, 955, 955, 945, 967, 945, 44, 32, 7936, 960, 942, 955, 955, 945, 947, 956, 945, 953, 44, 32, 7936, 960, 951, 955, 955, 940, 967, 952, 951, 957>>, <<>> >> >>,   \* ἀπαλλάττω
    << <<7941, 960, 945, 962>>, << <<97, 108, 108, 44, 32, 103, 97, 110, 122, 44, 32, 106, 101, 100, 101, 114>>, <<7941, 960, 945, 962, 44, 32, 7941, 960, 945, 963, 945, 44, 32, 7941, 960, 945, 957>>, <<>> >> >>,   \* ἅπας
    << <<7940, 960, 949, 953, 956, 953>>, << <<119, 101, 103, 103, 101, 104, 101, 110>>, <<7940, 960, 949, 953, 956, 953>>, <<>> >> >>,   \* ἄπειμι
    << <<7936, 960, 953, 963, 964, 941, 969>>, << <<110, 105, 99, 104, 116, 32, 103, 108, 97, 117, 98, 101, 110, 59, 32, 109, 105, 115, 115, 116, 114, 97, 117, 101, 110>>, <<7936, 960, 953, 963, 964, 941, 969>>, <<>> >> >>,   \* ἀπιστέω
    << <<7936, 960, 972>>, << <<118, 111, 110, 44, 32, 115, 101, 105, 116>>, <<7936, 960, 972>>, <<>> >> >>,   \* ἀπό
    << <<7936, 960, 959, 948, 949, 943, 954, 957, 965, 956, 953>>, << <<122, 101, 105, 103, 101, 110, 44, 32, 100, 97, 114, 108, 101, 103, 101, 110, 44, 32, 98, 101, 119, 101, 105, 115, 101, 110>>, <<7936, 960, 959, 948, 949, 943, 954, 957, 965, 956, 953>>, <<>> >> >>,   \* ἀποδείκνυμι
    << <<7936, 960, 959, 948, 941, 967, 959, 956, 945, 953>>, << <<97, 110, 110, 101, 104, 109, 101, 110, 59, 32, 97, 117, 102, 110, 101, 104, 109, 101, 110>>, <<7936, 960, 959, 948, 941, 967, 959, 956, 945, 953>>, <<>> >> >>,   \* ἀποδέχομαι
    << <<7936, 960, 959, 948, 953, 948, 961, 940, 963, 954, 969>>, << <<119, 101, 103, 108, 97, 117, 102, 101, 110, 44, 32, 101, 110, 116, 108, 97, 117, 102, 101, 110>>, <<7936, 960, 959, 948, 953, 948, 961, 940, 963, 954, 969>>, <<>> >> >>,   \* ἀποδιδράσκω
    << <<7936, 960, 959, 952, 957, 8132, 963, 954, 969>>, << <<115, 116, 101, 114, 98, 101, 110, 59, 32, 116, 111, 116, 32, 115, 101, 105, 110>>, <<7936, 960, 959, 952, 957, 8132, 963, 954, 969, 44, 32, 7936, 960, 959, 952, 945, 957, 959, 8166, 956, 945, 953, 44, 32, 7936, 960, 941, 952, 945, 957, 959, 957, 44, 32, 964, 941, 952, 957, 951, 954, 945>>, <<>> >> >>,   \* ἀποθνῄσκω
    << <<7936, 960, 959, 954, 961, 943, 957, 959, 956, 945, 953>>, << <<97, 110, 116, 119, 111, 114, 116, 101, 110>>, <<7936, 960, 959, 954, 961, 943, 957, 959, 956, 945, 953, 44, 32, 7936, 960, 959, 954, 961, 953, 957, 959, 8166, 956, 945, 953, 44, 32, 7936, 960, 949, 954, 961, 953, 957, 940, 956, 951, 957, 44, 32, 7936, 960, 949, 954, 961, 943, 952, 951, 957>>, <<>> >> >>,   \* ἀποκρίνομαι
    << <<7936, 960, 972, 954, 961, 953, 963, 953, 962>>, << <<65, 110, 116, 119, 111, 114, 116>>, <<7936, 960, 972, 954, 961, 953, 963, 953, 962, 44, 32, 949, 969, 962, 44, 32, 7969>>, <<>> >> >>,   \* ἀπόκρισις
    << <<7936, 960, 959, 954, 964, 949, 943, 957, 969>>, << <<116, 246, 116, 101, 110>>, <<7936, 960, 959, 954, 964, 949, 943, 957, 969, 44, 32, 7936, 960, 959, 954, 964, 949, 957, 8182, 44, 32, 7936, 960, 941, 954, 964, 949, 953, 957, 945, 44, 32, 7936, 960, 941, 954, 964, 959, 957, 945>>, <<>> >> >>,   \* ἀποκτείνω
    << <<7936, 960, 972, 955, 955, 965, 956, 953>>, << <<122, 117, 103, 114, 117, 110, 100, 101, 32, 114, 105, 99, 104, 116, 101, 110, 59, 32, 118, 101, 114, 108, 105, 101, 114, 101, 110>>, <<7936, 960, 972, 955, 955, 965, 956, 953, 44, 32, 7936, 960, 959, 955, 8182, 44, 32, 7936, 960, 974, 955, 949, 963, 945>>, <<65, 111, 114, 46, 32, 77, 46, 32, 7936, 960, 969, 955, 972, 956, 951, 957, 44, 32, 80, 101, 114, 102, 46, 32, 7936, 960, 959, 955, 974, 955, 949, 954, 945, 47, 7936, 960, 972, 955, 969, 955, 945>> >> >>,   \* ἀπόλλυμι
    << <<7936, 960, 959, 955, 959, 947, 941, 959, 956, 945, 953>>, << <<115, 105, 99, 104, 32, 118, 101, 114, 116, 101, 105, 100, 105, 103, 101, 110>>, <<7936, 960, 959, 955, 959, 947, 941, 959, 956, 945, 953>>, <<>> >> >>,   \* ἀπολογέομαι
    << <<7936, 960, 959, 961, 943, 945>>, << <<82, 97, 116, 108, 111, 115, 105, 103, 107, 101, 105, 116, 59, 32, 77, 97, 110, 103, 101, 108>>, <<7936, 960, 959, 961, 943, 945, 44, 32, 945, 962, 44, 32, 7969>>, <<>> >> >>,   \* ἀπορία
    << <<7936, 960, 959, 966, 945, 943, 957, 969>>, << <<122, 101, 105, 103, 101, 110, 44, 32, 100, 97, 114, 108, 101, 103, 101, 110>>, <<7936, 960, 959, 966, 945, 943, 957, 969>>, <<>> >> >>,   \* ἀποφαίνω
    << <<7941, 960, 964, 959, 956, 945, 953>>, << <<98, 101, 114, 252, 104, 114, 101, 110, 44, 32, 97, 110, 102, 97, 115, 115, 101, 110, 59, 32, 115, 105, 99, 104, 32, 98, 101, 102, 97, 115, 115, 101, 110, 32, 109, 105, 116>>, <<7941, 960, 964, 959, 956, 945, 953, 44, 32, 7941, 968, 959, 956, 945, 953, 44, 32, 7969, 968, 940, 956, 951, 957, 44, 32, 7975, 956, 956, 945, 953, 44, 32, 7973, 966, 952, 951, 957>>, <<>> >> >>,   \* ἅπτομαι
    << <<7940, 961, 945>>, << <<97, 108, 115, 111, 44, 32, 102, 111, 108, 103, 108, 105, 99, 104>>, <<7940, 961, 945>>, <<>> >> >>,   \* ἄρα
    << <<7942, 961, 945>>, << <<70, 114, 97, 103, 101, 112, 97, 114, 116, 105, 107, 101, 108>>, <<7942, 961, 945>>, <<>> >> >>,   \* ἆρα
    << <<7936, 961, 947, 973, 961, 953, 959, 957>>, << <<83, 105, 108, 98, 101, 114, 44, 32, 71, 101, 108, 100>>, <<7936, 961, 947, 973, 961, 953, 959, 957, 44, 32, 959, 965, 44, 32, 964, 972>>, <<>> >> >>,   \* ἀργύριον
    << <<7936, 961, 949, 964, 942>>, << <<84, 252, 99, 104, 116, 105, 103, 107, 101, 105, 116, 44, 32, 84, 117, 103, 101, 110, 100, 59, 32, 84, 97, 112, 102, 101, 114, 107, 101, 105, 116, 59, 32, 76, 101, 105, 115, 116, 117, 110, 103>>, <<7936, 961, 949, 964, 942, 44, 32, 8134, 962, 44, 32, 7969>>, <<>> >> >>,   \* ἀρετή
    << <<7936, 961, 953, 952, 956, 972, 962>>, << <<90, 97, 104, 108>>, <<7936, 961, 953, 952, 956, 972, 962, 44, 32, 959, 8166, 44, 32, 8001>>, <<>> >> >>,   \* ἀριθμός
    << <<7940, 961, 953, 963, 964, 959, 962>>, << <<100, 101, 114, 32, 98, 101, 115, 116, 101, 44, 32, 116, 252, 99, 104, 116, 105, 103, 115, 116, 101>>, <<7940, 961, 953, 963, 964, 959, 962, 44, 32, 951, 44, 32, 959, 957>>, <<83, 117, 112, 101, 114, 108, 97, 116, 105, 118, 32, 118, 111, 110, 32, 7936, 947, 945, 952, 972, 962>> >> >>,   \* ἄριστος
    << <<7936, 961, 954, 941, 969>>, << <<115, 116, 97, 114, 107, 32, 103, 101, 110, 117, 103, 32, 115, 101, 105, 110, 44, 32, 103, 101, 110, 252, 103, 101, 110>>, <<7936, 961, 954, 941, 969>>, <<>> >> >>,   \* ἀρκέω
    << <<7936, 961, 967, 945, 8150, 959, 962>>, << <<97, 108, 116, 44, 32, 102, 114, 252, 104, 101, 114>>, <<7936, 961, 967, 945, 8150, 959, 962, 44, 32, 945, 44, 32, 959, 957>>, <<>> >> >>,   \* ἀρχαῖος
    << <<7936, 961, 967, 942>>, << <<65, 110, 102, 97, 110, 103, 59, 32, 72, 101, 114, 114, 115, 99, 104, 97, 102, 116, 44, 32, 82, 101, 105, 99, 104, 59, 32, 65, 109, 116>>, <<7936, 961, 967, 942, 44, 32, 8134, 962, 44, 32, 7969>>, <<>> >> >>,   \* ἀρχή
    << <<7940, 961, 967, 959, 956, 945, 953>>, << <<97, 110, 102, 97, 110, 103, 101, 110>>, <<7940, 961, 967, 959, 956, 945, 953, 44, 32, 7940, 961, 958, 959, 956, 945, 953, 44, 32, 7968, 961, 958, 940, 956, 951, 957>>, <<>> >> >>,   \* ἄρχομαι
    << <<7940, 961, 967, 969>>, << <<104, 101, 114, 114, 115, 99, 104, 101, 110, 59, 32, 100, 101, 110, 32, 65, 110, 102, 97, 110, 103, 32, 109, 97, 99, 104, 101, 110>>, <<7940, 961, 967, 969, 44, 32, 7940, 961, 958, 969, 44, 32, 7974, 961, 958, 945, 44, 32, 7974, 961, 947, 956, 945, 953, 44, 32, 7974, 961, 967, 952, 951, 957>>, <<>> >> >>,   \* ἄρχω
    << <<7940, 961, 967, 969, 957>>, << <<72, 101, 114, 114, 115, 99, 104, 101, 114, 44, 32, 65, 110, 102, 252, 104, 114, 101, 114, 59, 32, 65, 114, 99, 104, 111, 110, 116>>, <<7940, 961, 967, 969, 957, 44, 32, 959, 957, 964, 959, 962, 44, 32, 8001>>, <<>> >> >>,   \* ἄρχων
    << <<7936, 963, 952, 949, 957, 942, 962>>, << <<115, 99, 104, 119, 97, 99, 104, 44, 32, 107, 114, 97, 102, 116, 108, 111, 115, 59, 32, 107, 114, 97, 110, 107>>, <<7936, 963, 952, 949, 957, 942, 962, 44, 32, 941, 962>>, <<>> >> >>,   \* ἀσθενής
    << <<7936, 963, 954, 941, 969>>, << <<252, 98, 101, 110, 44, 32, 97, 117, 115, 252, 98, 101, 110>>, <<7936, 963, 954, 941, 969>>, <<>> >> >>,   \* ἀσκέω
    << <<7940, 963, 964, 961, 959, 957>>, << <<83, 116, 101, 114, 110>>, <<7940, 963, 964, 961, 959, 957, 44, 32, 959, 965, 44, 32, 964, 972>>, <<>> >> >>,   \* ἄστρον
    << <<7940, 964, 949>>, << <<100, 97, 44, 32, 119, 101, 105, 108>>, <<7940, 964, 949>>, <<111, 98, 106, 101, 107, 116, 105, 118, 101, 114, 32, 71, 114, 117, 110, 100, 32, 105, 109, 32, 85, 110, 116, 101, 114, 115, 99, 104, 105, 101, 100, 32, 122, 117, 32, 8033, 962, 32, 43, 32, 80, 97, 114, 116, 46>> >> >>,   \* ἄτε
    << <<7940, 964, 959, 960, 959, 962>>, << <<117, 110, 112, 97, 115, 115, 101, 110, 100, 44, 32, 115, 101, 108, 116, 115, 97, 109>>, <<7940, 964, 959, 960, 959, 962, 44, 32, 959, 957>>, <<>> >> >>,   \* ἄτοπος
    << <<945, 8022>>, << <<119, 105, 101, 100, 101, 114, 59, 32, 119, 105, 101, 100, 101, 114, 117, 109>>, <<945, 8022, 44, 32, 945, 8022, 952, 953, 962>>, <<>> >> >>,   \* αὖ
    << <<945, 8016, 964, 943, 954, 945>>, << <<115, 111, 102, 111, 114, 116>>, <<945, 8016, 964, 943, 954, 945>>, <<>> >> >>,   \* αὐτίκα
    << <<945, 8016, 964, 972, 962>>, << <<115, 101, 108, 98, 115, 116, 59, 32, 100, 101, 114, 115, 101, 108, 98, 101>>, <<945, 8016, 964, 972, 962, 44, 32, 942, 44, 32, 972>>, <<80, 101, 114, 115, 111, 110, 97, 108, 112, 114, 111, 110, 111, 109, 101, 110, 32, 100, 101, 114, 32, 51, 46, 80, 115, 46>> >> >>,   \* αὐτός
    << <<945, 8016, 964, 959, 8166>>, << <<101, 98, 101, 110, 100, 111, 114, 116>>, <<945, 8016, 964, 959, 8166>>, <<>> >> >>,   \* αὐτοῦ
    << <<7936, 966, 945, 953, 961, 941, 969>>, << <<119, 101, 103, 110, 101, 104, 109, 101, 110>>, <<7936, 966, 945, 953, 961, 941, 969, 44, 32, 7936, 966, 945, 953, 961, 942, 963, 969, 44, 32, 7936, 966, 949, 8150, 955, 959, 957, 44, 32, 7936, 966, 942, 961, 951, 954, 945, 44, 32, 7936, 966, 942, 961, 951, 956, 945, 953, 44, 32, 7936, 966, 951, 961, 941, 952, 951, 957>>, <<>> >> >>,   \* ἀφαιρέω
    << <<7936, 966, 943, 951, 956, 953>>, << <<108, 111, 115, 115, 99, 104, 105, 99, 107, 101, 110, 59, 32, 102, 114, 101, 105, 108, 97, 115, 115, 101, 110>>, <<7936, 966, 943, 951, 956, 953, 44, 32, 7936, 966, 942, 963, 969, 44, 32, 7936, 966, 8134, 954, 945, 44, 32, 7936, 966, 949, 8150, 954, 945, 44, 32, 7936, 966, 949, 8150, 956, 945, 953, 44, 32, 7936, 966, 949, 943, 952, 951, 957>>, <<>> >> >>,   \* ἀφίημι
    << <<7936, 966, 953, 954, 957, 941, 959, 956, 945, 953>>, << <<97, 110, 107, 111, 109, 109, 101, 110>>, <<7936, 966, 953, 954, 957, 941, 959, 956, 945, 953, 44, 32, 7936, 966, 943, 958, 959, 956, 945, 953, 44, 32, 7936, 966, 953, 954, 972, 956, 951, 957, 44, 32, 7936, 966, 8150, 947, 956, 945, 953>>, <<>> >> >>,   \* ἀφικνέομαι
    << <<7940, 966, 961, 969, 957>>, << <<117, 110, 118, 101, 114, 110, 252, 110, 102, 116, 105, 103>>, <<7940, 966, 961, 969, 957, 44, 32, 959, 957>>, <<>> >> >>,   \* ἄφρων
    << <<7940, 967, 952, 959, 956, 945, 953>>, << <<117, 110, 119, 105, 108, 108, 105, 103, 32, 115, 101, 105, 110, 44, 32, 115, 105, 99, 104, 32, 228, 114, 103, 101, 114, 110>>, <<7940, 967, 952, 959, 956, 945, 953>>, <<>> >> >>,   \* ἄχθομαι
    << <<946, 945, 943, 957, 969>>, << <<103, 101, 104, 101, 110>>, <<946, 945, 943, 957, 969, 44, 32, 946, 942, 963, 959, 956, 945, 953, 44, 32, 7956, 946, 951, 957, 44, 32, 946, 941, 946, 951, 954, 945>>, <<>> >> >>,   \* βαίνω
    << <<946, 940, 955, 955, 969>>, << <<119, 101, 114, 102, 101, 110, 59, 32, 116, 114, 101, 102, 102, 101, 110>>, <<946, 940, 955, 955, 969, 44, 32, 946, 945, 955, 8182, 44, 32, 7956, 946, 945, 955, 959, 957, 44, 32, 946, 941, 946, 955, 951, 954, 945, 44, 32, 946, 941, 946, 955, 951, 956, 945, 953, 44, 32, 7952, 946, 955, 942, 952, 951, 957>>, <<>> >> >>,   \* βάλλω
    << <<946, 940, 961, 946, 945, 961, 959, 962>>, << <<110, 105, 99, 104, 116, 103, 114, 105, 101, 99, 104, 105, 115, 99, 104>>, <<946, 940, 961, 946, 945, 961, 959, 962, 44, 32, 959, 957>>, <<>> >> >>,   \* βάρβαρος
    << <<946, 945, 963, 953, 955, 949, 973, 962>>, << <<75, 246, 110, 105, 103>>, <<946, 945, 963, 953, 955, 949, 973, 962, 44, 32, 941, 969, 962, 44, 32, 8001>>, <<>> >> >>,   \* βασιλεύς
    << <<946, 941, 946, 945, 953, 959, 962>>, << <<102, 101, 115, 116, 44, 32, 98, 101, 115, 116, 228, 110, 100, 105, 103, 44, 32, 122, 117, 118, 101, 114, 108, 228, 115, 115, 105, 103>>, <<946, 941, 946, 945, 953, 959, 962, 44, 32, 945, 44, 32, 959, 957>>, <<>> >> >>,   \* βέβαιος
    << <<946, 949, 955, 964, 943, 969, 957>>, << <<98, 101, 115, 115, 101, 114>>, <<946, 949, 955, 964, 943, 969, 957, 44, 32, 946, 941, 955, 964, 953, 959, 957>>, <<75, 111, 109, 112, 46, 32, 122, 117, 32, 7936, 947, 945, 952, 972, 962, 44, 32, 83, 117, 112, 101, 114, 108, 46, 32, 946, 941, 955, 964, 953, 963, 964, 959, 962>> >> >>,   \* βελτίων
    << <<946, 953, 940, 950, 959, 956, 945, 953>>, << <<122, 119, 105, 110, 103, 101, 110, 44, 32, 252, 98, 101, 114, 119, 228, 108, 116, 105, 103, 101, 110>>, <<946, 953, 940, 950, 959, 956, 945, 953>>, <<>> >> >>,   \* βιάζομαι
    << <<946, 953, 946, 955, 943, 959, 957>>, << <<66, 117, 99, 104>>, <<946, 953, 946, 955, 943, 959, 957, 44, 32, 959, 965, 44, 32, 964, 972>>, <<>> >> >>,   \* βιβλίον
    << <<946, 943, 959, 962>>, << <<76, 101, 98, 101, 110, 59, 32, 76, 101, 98, 101, 110, 115, 117, 110, 116, 101, 114, 104, 97, 108, 116>>, <<946, 943, 959, 962, 44, 32, 959, 965, 44, 32, 8001>>, <<>> >> >>,   \* βίος
    << <<946, 953, 972, 969>>, << <<108, 101, 98, 101, 110>>, <<946, 953, 972, 969, 44, 32, 946, 953, 974, 963, 959, 956, 945, 953, 44, 32, 7952, 946, 943, 969, 957, 44, 32, 946, 949, 946, 943, 969, 954, 945>>, <<>> >> >>,   \* βιόω
    << <<946, 955, 940, 960, 964, 969>>, << <<115, 99, 104, 228, 100, 105, 103, 101, 110, 44, 32, 115, 99, 104, 97, 100, 101, 110>>, <<946, 955, 940, 960, 964, 969, 44, 32, 946, 955, 940, 968, 969, 44, 32, 7956, 946, 955, 945, 968, 945, 44, 32, 946, 941, 946, 955, 945, 966, 945, 44, 32, 946, 941, 946, 955, 945, 956, 956, 945, 953, 44, 32, 7952, 946, 955, 940, 946, 951, 957>>, <<>> >> >>,   \* βλάπτω
    << <<946, 955, 941, 960, 969>>, << <<98, 108, 105, 99, 107, 101, 110, 44, 32, 115, 101, 104, 101, 110>>, <<946, 955, 941, 960, 969, 44, 32, 946, 955, 941, 968, 959, 956, 945, 953, 44, 32, 7956, 946, 955, 949, 968, 945>>, <<>> >> >>,   \* βλέπω
    << <<946, 959, 951, 952, 941, 969>>, << <<104, 101, 108, 102, 101, 110>>, <<946, 959, 951, 952, 941, 969, 44, 32, 946, 959, 951, 952, 942, 963, 969, 44, 32, 7952, 946, 959, 942, 952, 951, 963, 945, 44, 32, 946, 949, 946, 959, 942, 952, 951, 954, 945>>, <<>> >> >>,   \* βοηθέω
    << <<946, 959, 965, 955, 949, 973, 969>>, << <<98, 101, 114, 97, 116, 101, 110, 44, 32, 252, 98, 101, 114, 108, 101, 103, 101, 110, 59, 32, 98, 101, 115, 99, 104, 108, 105, 101, 223, 101, 110>>, <<946, 959, 965, 955, 949, 973, 969, 44, 32, 946, 959, 965, 955, 949, 973, 963, 969, 44, 32, 7952, 946, 959, 973, 955, 949, 965, 963, 945, 44, 32, 946, 949, 946, 959, 973, 955, 949, 965, 954, 945, 44, 32, 946, 949, 946, 959, 973, 955, 949, 965, 956, 945, 953, 44, 32, 7952, 946, 959, 965, 955, 949, 973, 952, 951, 957>>, <<>> >> >>,   \* βουλεύω
    << <<946, 959, 965, 955, 942>>, << <<80, 108, 97, 110, 44, 32, 82, 97, 116, 44, 32, 65, 98, 115, 105, 99, 104, 116, 59, 32, 82, 97, 116, 115, 118, 101, 114, 115, 97, 109, 109, 108, 117, 110, 103>>, <<946, 959, 965, 955, 942, 44, 32, 8134, 962, 44, 32, 7969>>, <<>> >> >>,   \* βουλή
    << <<946, 959, 973, 955, 959, 956, 945, 953>>, << <<119, 111, 108, 108, 101, 110>>, <<946, 959, 973, 955, 959, 956, 945, 953, 44, 32, 946, 959, 965, 955, 942, 963, 959, 956, 945, 953, 44, 32, 946, 949, 946, 959, 973, 955, 951, 956, 945, 953, 44, 32, 7952, 946, 959, 965, 955, 942, 952, 951, 957>>, <<>> >> >>,   \* βούλομαι
    << <<946, 959, 8166, 962>>, << <<82, 105, 110, 100, 44, 32, 75, 117, 104>>, <<946, 959, 8166, 962, 44, 32, 946, 959, 972, 962, 44, 32, 8001, 47, 7969>>, <<>> >> >>,   \* βοῦς
    << <<946, 961, 959, 964, 972, 962>>, << <<115, 116, 101, 114, 98, 108, 105, 99, 104>>, <<946, 961, 959, 964, 972, 962, 44, 32, 942, 44, 32, 972, 957>>, <<>> >> >>,   \* βροτός
    << <<947, 940, 956, 959, 962>>, << <<72, 111, 99, 104, 122, 101, 105, 116, 44, 32, 69, 104, 101>>, <<947, 940, 956, 959, 962, 44, 32, 959, 965, 44, 32, 8001>>, <<>> >> >>,   \* γάμος
    << <<947, 940, 961>>, << <<100, 101, 110, 110, 44, 32, 110, 228, 109, 108, 105, 99, 104>>, <<947, 940, 961>>, <<>> >> >>,   \* γάρ
    << <<947, 949>>, << <<106, 101, 100, 101, 110, 102, 97, 108, 108, 115, 59, 32, 119, 101, 110, 105, 103, 115, 116, 101, 110, 115>>, <<947, 949>>, <<104, 228, 117, 102, 105, 103, 32, 117, 110, 252, 98, 101, 114, 115, 101, 116, 122, 116>> >> >>,   \* γε
    << <<947, 949, 955, 940, 969>>, << <<108, 97, 99, 104, 101, 110, 59, 32, 97, 117, 115, 108, 97, 99, 104, 101, 110>>, <<947, 949, 955, 940, 969, 44, 32, 947, 949, 955, 940, 963, 959, 956, 945, 953, 44, 32, 7952, 947, 941, 955, 945, 963, 945>>, <<>> >> >>,   \* γελάω
    << <<947, 949, 957, 957, 945, 8150, 959, 962>>, << <<101, 100, 101, 108, 44, 32, 97, 100, 108, 105, 103, 59, 32, 116, 252, 99, 104, 116, 105, 103, 59, 32, 101, 99, 104, 116>>, <<947, 949, 957, 957, 945, 8150, 959, 962, 44, 32, 945, 44, 32, 959, 957>>, <<>> >> >>,   \* γενναῖος
    << <<947, 941, 957, 959, 962>>, << <<71, 101, 115, 99, 104, 108, 101, 99, 104, 116, 44, 32, 71, 97, 116, 116, 117, 110, 103, 44, 32, 65, 98, 115, 116, 97, 109, 109, 117, 110, 103>>, <<947, 941, 957, 959, 962, 44, 32, 959, 965, 962, 44, 32, 964, 972>>, <<>> >> >>,   \* γένος
    << <<947, 941, 961, 969, 957>>, << <<97, 108, 116, 101, 114, 32, 77, 97, 110, 110, 44, 32, 71, 114, 101, 105, 115>>, <<947, 941, 961, 969, 957, 44, 32, 959, 957, 964, 959, 962, 44, 32, 8001>>, <<>> >> >>,   \* γέρων
    << <<947, 949, 969, 961, 947, 972, 962>>, << <<66, 97, 117, 101, 114>>, <<947, 949, 969, 961, 947, 972, 962, 44, 32, 959, 8166, 44, 32, 8001>>, <<>> >> >>,   \* γεωργός
    << <<947, 8134>>, << <<69, 114, 100, 101, 59, 32, 76, 97, 110, 100>>, <<947, 8134, 44, 32, 947, 8134, 962, 44, 32, 7969>>, <<>> >> >>,   \* γῆ
    << <<947, 943, 947, 957, 959, 956, 945, 953>>, << <<119, 101, 114, 100, 101, 110, 59, 32, 101, 110, 116, 115, 116, 101, 104, 101, 110, 59, 32, 103, 101, 115, 99, 104, 101, 104, 101, 110>>, <<947, 943, 947, 957, 959, 956, 945, 953, 44, 32, 947, 949, 957, 942, 963, 959, 956, 945, 953, 44, 32, 7952, 947, 949, 957, 972, 956, 951, 957, 44, 32, 947, 941, 947, 959, 957, 945, 47, 947, 949, 947, 941, 957, 951, 956, 945, 953>>, <<>> >> >>,   \* γίγνομαι
    << <<947, 953, 947, 957, 974, 963, 954, 969>>, << <<101, 114, 107, 101, 110, 110, 101, 110, 44, 32, 107, 101, 110, 110, 101, 110>>, <<947, 953, 947, 957, 974, 963, 954, 969, 44, 32, 947, 957, 974, 963, 959, 956, 945, 953, 44, 32, 7956, 947, 957, 969, 957, 44, 32, 7956, 947, 957, 969, 954, 945, 44, 32, 7956, 947, 957, 969, 963, 956, 945, 953, 44, 32, 7952, 947, 957, 974, 963, 952, 951, 957>>, <<>> >> >>,   \* γιγνώσκω
    << <<947, 955, 965, 954, 973, 962>>, << <<115, 252, 223, 44, 32, 108, 105, 101, 98>>, <<947, 955, 965, 954, 973, 962, 44, 32, 949, 8150, 945, 44, 32, 973>>, <<>> >> >>,   \* γλυκύς
    << <<947, 955, 8182, 964, 964, 945>>, << <<90, 117, 110, 103, 101, 59, 32, 83, 112, 114, 97, 99, 104, 101>>, <<947, 955, 8182, 964, 964, 945, 44, 32, 951, 962, 44, 32, 7969>>, <<>> >> >>,   \* γλῶττα
    << <<947, 957, 974, 956, 951>>, << <<86, 101, 114, 115, 116, 97, 110, 100, 44, 32, 69, 105, 110, 115, 105, 99, 104, 116, 59, 32, 71, 101, 115, 105, 110, 110, 117, 110, 103, 44, 32, 77, 101, 105, 110, 117, 110, 103>>, <<947, 957, 974, 956, 951, 44, 32, 951, 962, 44, 32, 7969>>, <<>> >> >>,   \* γνώμη
    << <<947, 959, 8166, 957>>, << <<106, 101, 100, 101, 110, 102, 97, 108, 108, 115, 44, 32, 119, 101, 110, 105, 103, 115, 116, 101, 110, 115>>, <<947, 959, 8166, 957>>, <<>> >> >>,   \* γοῦν
    << <<947, 961, 940, 956, 956, 945>>, << <<66, 117, 99, 104, 115, 116, 97, 98, 101, 59, 32, 83, 99, 104, 114, 105, 102, 116, 59, 32, 87, 105, 115, 115, 101, 110, 115, 99, 104, 97, 102, 116>>, <<947, 961, 940, 956, 956, 945, 44, 32, 945, 964, 959, 962, 44, 32, 964, 972>>, <<964, 8048, 32, 947, 961, 940, 956, 956, 945, 964, 945, 32, 45, 32, 76, 105, 116, 101, 114, 97, 116, 117, 114, 44, 32, 87, 105, 115, 115, 101, 110, 115, 99, 104, 97, 102, 116, 101, 110>> >> >>,   \* γράμμα
    << <<947, 961, 940, 966, 969>>, << <<115, 99, 104, 114, 101, 105, 98, 101, 110>>, <<947, 961, 940, 966, 969, 44, 32, 947, 961, 940, 968, 969, 44, 32, 7956, 947, 961, 945, 968, 945, 44, 32, 947, 941, 947, 961, 945, 966, 945, 44, 32, 947, 941, 947, 961, 945, 956, 956, 945, 953, 44, 32, 7952, 947, 961, 940, 966, 951, 957>>, <<947, 961, 945, 966, 8052, 957, 32, 947, 961, 940, 966, 959, 956, 945, 953, 32, 45, 32, 97, 110, 107, 108, 97, 103, 101, 110>> >> >>,   \* γράφω
    << <<947, 965, 956, 957, 940, 950, 969>>, << <<252, 98, 101, 110, 44, 32, 116, 114, 97, 105, 110, 105, 101, 114, 101, 110>>, <<947, 965, 956, 957, 940, 950, 969>>, <<>> >> >>,   \* γυμνάζω
    << <<947, 965, 956, 957, 972, 962>>, << <<110, 97, 99, 107, 116, 59, 32, 117, 110, 98, 101, 119, 97, 102, 102, 110, 101, 116>>, <<947, 965, 956, 957, 972, 962, 44, 32, 942, 44, 32, 972, 957>>, <<>> >> >>,   \* γυμνός
    << <<947, 965, 957, 942>>, << <<70, 114, 97, 117>>, <<947, 965, 957, 942, 44, 32, 947, 965, 957, 945, 953, 954, 972, 962, 44, 32, 7969>>, <<>> >> >>,   \* γυνή
    << <<948, 945, 953, 956, 972, 957, 953, 959, 957>>, << <<103, 246, 116, 116, 108, 105, 99, 104, 101, 115, 32, 87, 101, 115, 101, 110, 44, 32, 103, 246, 116, 116, 108, 105, 99, 104, 101, 32, 83, 116, 105, 109, 109, 101>>, <<948, 945, 953, 956, 972, 957, 953, 959, 957, 44, 32, 959, 965, 44, 32, 964, 972>>, <<>> >> >>,   \* δαιμόνιον
    << <<948, 945, 943, 956, 969, 957>>, << <<71, 111, 116, 116, 104, 101, 105, 116, 59, 32, 71, 246, 116, 116, 101, 114, 119, 105, 108, 108, 101>>, <<948, 945, 943, 956, 969, 957, 44, 32, 959, 957, 959, 962, 44, 32, 8001, 47, 7969>>, <<>> >> >>,   \* δαίμων
    << <<948, 941>>, << <<97, 98, 101, 114, 59, 32, 117, 110, 100>>, <<948, 941>>, <<>> >> >>,   \* δέ
    << <<948, 941, 948, 959, 953, 954, 945>>, << <<102, 252, 114, 99, 104, 116, 101, 110>>, <<948, 941, 948, 959, 953, 954, 945, 47, 948, 941, 948, 953, 945, 44, 32, 948, 949, 943, 963, 959, 956, 945, 953, 44, 32, 7956, 948, 949, 953, 963, 945>>, <<80, 101, 114, 102, 101, 107, 116, 32, 109, 105, 116, 32, 80, 114, 228, 115, 101, 110, 115, 98, 101, 100, 101, 117, 116, 117, 110, 103>> >> >>,   \* δέδοικα
    << <<948, 949, 8150>>, << <<101, 115, 32, 105, 115, 116, 32, 110, 246, 116, 105, 103, 59, 32, 109, 97, 110, 32, 109, 117, 115, 115>>, <<948, 949, 8150, 44, 32, 948, 949, 942, 963, 949, 953, 44, 32, 7956, 948, 949, 953>>, <<118, 101, 114, 110, 101, 105, 110, 116, 58, 32, 109, 97, 110, 32, 100, 97, 114, 102, 32, 110, 105, 99, 104, 116>> >> >>,   \* δεῖ
    << <<948, 949, 943, 954, 957, 965, 956, 953>>, << <<122, 101, 105, 103, 101, 110, 59, 32, 110, 97, 99, 104, 119, 101, 105, 115, 101, 110>>, <<948, 949, 943, 954, 957, 965, 956, 953, 44, 32, 948, 949, 943, 958, 969, 44, 32, 7956, 948, 949, 953, 958, 945, 44, 32, 948, 941, 948, 949, 953, 967, 945, 44, 32, 948, 941, 948, 949, 953, 947, 956, 945, 953, 44, 32, 7952, 948, 949, 943, 967, 952, 951, 957>>, <<>> >> >>,   \* δείκνυμι
    << <<948, 949, 953, 955, 972, 962>>, << <<102, 117, 114, 99, 104, 116, 115, 97, 109, 44, 32, 102, 101, 105, 103, 101, 59, 32, 101, 108, 101, 110, 100>>, <<948, 949, 953, 955, 972, 962, 44, 32, 942, 44, 32, 972, 957>>, <<>> >> >>,   \* δειλός
    << <<948, 949, 953, 957, 972, 962>>, << <<103, 101, 119, 97, 108, 116, 105, 103, 59, 32, 102, 117, 114, 99, 104, 116, 98, 97, 114, 59, 32, 116, 252, 99, 104, 116, 105, 103>>, <<948, 949, 953, 957, 972, 962, 44, 32, 942, 44, 32, 972, 957>>, <<>> >> >>,   \* δεινός
    << <<948, 949, 8150, 960, 957, 959, 957>>, << <<77, 97, 104, 108, 122, 101, 105, 116, 44, 32, 65, 98, 101, 110, 100, 101, 115, 115, 101, 110>>, <<948, 949, 8150, 960, 957, 959, 957, 44, 32, 959, 965, 44, 32, 964, 972>>, <<>> >> >>,   \* δεῖπνον
    << <<948, 941, 954, 945>>, << <<122, 101, 104, 110>>, <<948, 941, 954, 945>>, <<>> >> >>,   \* δέκα
    << <<948, 941, 957, 948, 961, 959, 957>>, << <<66, 97, 117, 109>>, <<948, 941, 957, 948, 961, 959, 957, 44, 32, 959, 965, 44, 32, 964, 972>>, <<>> >> >>,   \* δένδρον
    << <<948, 941, 959, 956, 945, 953>>, << <<98, 101, 100, 252, 114, 102, 101, 110, 44, 32, 110, 246, 116, 105, 103, 32, 104, 97, 98, 101, 110, 59, 32, 98, 105, 116, 116, 101, 110>>, <<948, 941, 959, 956, 945, 953, 44, 32, 948, 949, 942, 963, 959, 956, 945, 953, 44, 32, 7952, 948, 949, 942, 952, 951, 957>>, <<948, 941, 959, 956, 945, 943, 32, 964, 953, 957, 959, 962, 32, 964, 943, 32, 45, 32, 106, 100, 110, 46, 32, 117, 109, 32, 101, 116, 119, 46, 32, 98, 105, 116, 116, 101, 110>> >> >>,   \* δέομαι
    << <<948, 941, 959, 957>>, << <<100, 97, 32, 101, 115, 32, 110, 246, 116, 105, 103, 32, 105, 115, 116>>, <<948, 941, 959, 957>>, <<964, 8056, 32, 948, 941, 959, 957, 47, 964, 8048, 32, 948, 941, 959, 957, 964, 945, 32, 45, 32, 100, 97, 115, 32, 78, 246, 116, 105, 103, 101>> >> >>,   \* δέον
    << <<948, 949, 963, 960, 972, 964, 951, 962>>, << <<72, 101, 114, 114, 44, 32, 72, 101, 114, 114, 115, 99, 104, 101, 114>>, <<948, 949, 963, 960, 972, 964, 951, 962, 44, 32, 959, 965, 44, 32, 8001>>, <<>> >> >>,   \* δεσπότης
    << <<948, 949, 8166, 961, 959>>, << <<104, 105, 101, 114, 104, 101, 114>>, <<948, 949, 8166, 961, 959>>, <<>> >> >>,   \* δεῦρο
    << <<948, 949, 973, 964, 949, 961, 959, 962>>, << <<100, 101, 114, 32, 122, 119, 101, 105, 116, 101>>, <<948, 949, 973, 964, 949, 961, 959, 962, 44, 32, 945, 44, 32, 959, 957>>, <<>> >> >>,   \* δεύτερος
    << <<948, 941, 967, 959, 956, 945, 953>>, << <<97, 110, 110, 101, 104, 109, 101, 110, 44, 32, 97, 117, 102, 110, 101, 104, 109, 101, 110>>, <<948, 941, 967, 959, 956, 945, 953, 44, 32, 948, 941, 958, 959, 956, 945, 953, 44, 32, 7952, 948, 949, 958, 940, 956, 951, 957, 44, 32, 948, 941, 948, 949, 947, 956, 945, 953, 44, 32, 7952, 948, 941, 967, 952, 951, 957>>, <<>> >> >>,   \* δέχομαι
    << <<948, 941, 969>>, << <<102, 101, 115, 115, 101, 108, 110, 44, 32, 98, 105, 110, 100, 101, 110>>, <<948, 941, 969>>, <<>> >> >>,   \* δέω
    << <<948, 942>>, << <<97, 108, 115, 111, 44, 32, 119, 105, 114, 107, 108, 105, 99, 104>>, <<948, 942>>, <<111, 102, 116, 32, 122, 117, 114, 32, 86, 101, 114, 115, 116, 228, 114, 107, 117, 110, 103>> >> >>,   \* δή
    << <<948, 8134, 955, 959, 962>>, << <<111, 102, 102, 101, 110, 115, 105, 99, 104, 116, 108, 105, 99, 104, 44, 32, 107, 108, 97, 114>>, <<948, 8134, 955, 959, 962, 44, 32, 951, 44, 32, 959, 957>>, <<>> >> >>,   \* δῆλος
    << <<948, 951, 955, 972, 969>>, << <<107, 108, 97, 114, 32, 109, 97, 99, 104, 101, 110, 44, 32, 122, 101, 105, 103, 101, 110>>, <<948, 951, 955, 972, 969, 44, 32, 948, 951, 955, 974, 963, 969, 44, 32, 7952, 948, 942, 955, 969, 963, 945, 44, 32, 948, 949, 948, 942, 955, 969, 954, 945, 44, 32, 7952, 948, 951, 955, 974, 952, 951, 957>>, <<>> >> >>,   \* δηλόω
    << <<948, 951, 956, 953, 959, 965, 961, 947, 972, 962>>, << <<72, 97, 110, 100, 119, 101, 114, 107, 101, 114, 59, 32, 83, 99, 104, 246, 112, 102, 101, 114>>, <<948, 951, 956, 953, 959, 965, 961, 947, 972, 962, 44, 32, 959, 8166, 44, 32, 8001>>, <<>> >> >>,   \* δημιουργός
    << <<948, 8134, 956, 959, 962>>, << <<71, 101, 109, 101, 105, 110, 100, 101, 59, 32, 86, 111, 108, 107>>, <<948, 8134, 956, 959, 962, 44, 32, 959, 965, 44, 32, 8001>>, <<>> >> >>,   \* δῆμος
    << <<948, 951, 956, 972, 963, 953, 959, 962>>, << <<115, 116, 97, 97, 116, 108, 105, 99, 104, 44, 32, 246, 102, 102, 101, 110, 116, 108, 105, 99, 104>>, <<948, 951, 956, 972, 963, 953, 959, 962, 44, 32, 945, 44, 32, 959, 957>>, <<948, 951, 956, 959, 963, 943, 8115, 32, 45, 32, 246, 102, 102, 101, 110, 116, 108, 105, 99, 104, 44, 32, 71, 103, 115, 46, 32, 7984, 948, 943, 8115>> >> >>,   \* δημόσιος
    << <<948, 942, 960, 959, 965>>, << <<100, 111, 99, 104, 32, 119, 111, 104, 108, 44, 32, 115, 105, 99, 104, 101, 114, 108, 105, 99, 104>>, <<948, 942, 960, 959, 965>>, <<>> >> >>,   \* δήπου
    << <<948, 8134, 964, 945>>, << <<98, 101, 115, 116, 105, 109, 109, 116, 44, 32, 100, 117, 114, 99, 104, 97, 117, 115>>, <<948, 8134, 964, 945>>, <<>> >> >>,   \* δῆτα
    << <<948, 953, 940>>, << <<100, 117, 114, 99, 104, 32, 40, 43, 71, 101, 110, 46, 41, 59, 32, 119, 101, 103, 101, 110, 32, 40, 43, 65, 107, 107, 46, 41>>, <<948, 953, 940>>, <<948, 953, 8048, 32, 964, 943, 32, 45, 32, 119, 101, 115, 104, 97, 108, 98, 59, 32, 948, 953, 8048, 32, 964, 959, 8166, 964, 959, 32, 45, 32, 100, 101, 115, 104, 97, 108, 98>> >> >>,   \* διά
    << <<948, 953, 945, 946, 940, 955, 955, 969>>, << <<118, 101, 114, 108, 101, 117, 109, 100, 101, 110>>, <<948, 953, 945, 946, 940, 955, 955, 969>>, <<>> >> >>,   \* διαβάλλω
    << <<948, 953, 945, 955, 941, 947, 959, 956, 945, 953>>, << <<115, 105, 99, 104, 32, 117, 110, 116, 101, 114, 104, 97, 108, 116, 101, 110>>, <<948, 953, 945, 955, 941, 947, 959, 956, 945, 953, 44, 32, 948, 953, 945, 955, 941, 958, 959, 956, 945, 953, 44, 32, 948, 953, 949, 955, 941, 967, 952, 951, 957, 44, 32, 948, 953, 949, 943, 955, 949, 947, 956, 945, 953>>, <<>> >> >>,   \* διαλέγομαι
    << <<948, 953, 945, 957, 959, 941, 959, 956, 945, 953>>, << <<100, 101, 110, 107, 101, 110, 44, 32, 98, 101, 97, 98, 115, 105, 99, 104, 116, 105, 103, 101, 110>>, <<948, 953, 945, 957, 959, 941, 959, 956, 945, 953>>, <<>> >> >>,   \* διανοέομαι
    << <<948, 953, 945, 966, 941, 961, 969>>, << <<115, 105, 99, 104, 32, 117, 110, 116, 101, 114, 115, 99, 104, 101, 105, 100, 101, 110>>, <<948, 953, 945, 966, 941, 961, 969, 44, 32, 948, 953, 959, 943, 963, 969, 44, 32, 948, 953, 942, 957, 949, 947, 954, 959, 957, 44, 32, 948, 953, 949, 957, 942, 957, 959, 967, 945, 44, 32, 948, 953, 949, 957, 942, 957, 949, 947, 956, 945, 953>>, <<948, 953, 945, 966, 941, 961, 949, 953, 32, 45, 32, 101, 115, 32, 109, 97, 99, 104, 116, 32, 101, 105, 110, 101, 110, 32, 85, 110, 116, 101, 114, 115, 99, 104, 105, 101, 100>> >> >>,   \* διαφέρω
    << <<948, 953, 945, 966, 952, 949, 943, 961, 969>>, << <<118, 101, 114, 100, 101, 114, 98, 101, 110, 44, 32, 118, 101, 114, 110, 105, 99, 104, 116, 101, 110>>, <<948, 953, 945, 966, 952, 949, 943, 961, 969, 44, 32, 948, 953, 945, 966, 952, 949, 961, 8182, 44, 32, 948, 953, 941, 966, 952, 949, 953, 961, 945, 44, 32, 948, 953, 941, 966, 952, 945, 961, 954, 945, 44, 32, 948, 953, 941, 966, 952, 945, 961, 956, 945, 953, 44, 32, 948, 953, 949, 966, 952, 940, 961, 951, 957>>, <<>> >> >>,   \* διαφθείρω
    << <<948, 953, 948, 940, 963, 954, 945, 955, 959, 962>>, << <<76, 101, 104, 114, 101, 114>>, <<948, 953, 948, 940, 963, 954, 945, 955, 959, 962, 44, 32, 959, 965, 44, 32, 8001>>, <<>> >> >>,   \* διδάσκαλος
    << <<948, 953, 948, 940, 963, 954, 969>>, << <<108, 101, 104, 114, 101, 110, 44, 32, 117, 110, 116, 101, 114, 114, 105, 99, 104, 116, 101, 110>>, <<948, 953, 948, 940, 963, 954, 969, 44, 32, 948, 953, 948, 940, 958, 969, 44, 32, 7952, 948, 943, 948, 945, 958, 945, 44, 32, 948, 949, 948, 943, 948, 945, 967, 945, 44, 32, 948, 949, 948, 943, 948, 945, 947, 956, 945, 953, 44, 32, 7952, 948, 953, 948, 940, 967, 952, 951, 957>>, <<>> >> >>,   \* διδάσκω
    << <<948, 943, 948, 969, 956, 953>>, << <<103, 101, 98, 101, 110>>, <<948, 943, 948, 969, 956, 953, 44, 32, 948, 974, 963, 969, 44, 32, 7956, 948, 969, 954, 945, 44, 32, 948, 941, 948, 969, 954, 945, 44, 32, 948, 941, 948, 959, 956, 945, 953, 44, 32, 7952, 948, 972, 952, 951, 957>>, <<948, 943, 954, 951, 957, 32, 948, 943, 948, 969, 956, 953, 32, 45, 32, 98, 101, 115, 116, 114, 97, 102, 116, 32, 119, 101, 114, 100, 101, 110>> >> >>,   \* δίδωμι
    << <<948, 953, 941, 961, 967, 959, 956, 945, 953>>, << <<104, 105, 110, 100, 117, 114, 99, 104, 103, 101, 104, 101, 110, 59, 32, 101, 114, 246, 114, 116, 101, 114, 110>>, <<948, 953, 941, 961, 967, 959, 956, 945, 953>>, <<>> >> >>,   \* διέρχομαι
    << <<948, 953, 954, 940, 950, 969>>, << <<82, 101, 99, 104, 116, 32, 115, 112, 114, 101, 99, 104, 101, 110, 44, 32, 117, 114, 116, 101, 105, 108, 101, 110>>, <<948, 953, 954, 940, 950, 969>>, <<948, 953, 954, 940, 950, 959, 956, 945, 953, 32, 45, 32, 112, 114, 111, 122, 101, 115, 115, 105, 101, 114, 101, 110>> >> >>,   \* δικάζω
    << <<948, 943, 954, 945, 953, 959, 962>>, << <<103, 101, 114, 101, 99, 104, 116, 44, 32, 114, 105, 99, 104, 116, 105, 103>>, <<948, 943, 954, 945, 953, 959, 962, 44, 32, 943, 945, 44, 32, 953, 959, 957>>, <<948, 953, 954, 945, 953, 972, 962, 32, 949, 7984, 956, 953, 32, 43, 32, 73, 110, 102, 46, 32, 45, 32, 98, 101, 114, 101, 99, 104, 116, 105, 103, 116, 32, 115, 101, 105, 110>> >> >>,   \* δίκαιος
    << <<948, 953, 954, 945, 953, 959, 963, 973, 957, 951>>, << <<71, 101, 114, 101, 99, 104, 116, 105, 103, 107, 101, 105, 116>>, <<948, 953, 954, 945, 953, 959, 963, 973, 957, 951, 44, 32, 951, 962, 44, 32, 7969>>, <<>> >> >>,   \* δικαιοσύνη
    << <<948, 953, 954, 945, 953, 972, 969>>, << <<102, 252, 114, 32, 114, 101, 99, 104, 116, 32, 104, 97, 108, 116, 101, 110, 44, 32, 102, 111, 114, 100, 101, 114, 110>>, <<948, 953, 954, 945, 953, 972, 969>>, <<>> >> >>,   \* δικαιόω
    << <<948, 953, 954, 945, 963, 964, 942, 961, 953, 959, 957>>, << <<71, 101, 114, 105, 99, 104, 116>>, <<948, 953, 954, 945, 963, 964, 942, 961, 953, 959, 957, 44, 32, 959, 965, 44, 32, 964, 972>>, <<>> >> >>,   \* δικαστήριον
    << <<948, 953, 954, 945, 963, 964, 942, 962>>, << <<82, 105, 99, 104, 116, 101, 114>>, <<948, 953, 954, 945, 963, 964, 942, 962, 44, 32, 959, 8166, 44, 32, 8001>>, <<>> >> >>,   \* δικαστής
    << <<948, 943, 954, 951>>, << <<82, 101, 99, 104, 116, 44, 32, 71, 101, 114, 101, 99, 104, 116, 105, 103, 107, 101, 105, 116, 59, 32, 80, 114, 111, 122, 101, 115, 115, 44, 32, 83, 116, 114, 97, 102, 101>>, <<948, 943, 954, 951, 44, 32, 951, 962, 44, 32, 7969>>, <<948, 943, 954, 951, 957, 32, 948, 943, 948, 969, 956, 953, 32, 45, 32, 98, 101, 115, 116, 114, 97, 102, 116, 32, 119, 101, 114, 100, 101, 110>> >> >>,   \* δίκη
    << <<948, 953, 972>>, << <<100, 101, 115, 104, 97, 108, 98>>, <<948, 953, 972>>, <<>> >> >>,   \* διό
    << <<948, 953, 974, 954, 969>>, << <<118, 101, 114, 102, 111, 108, 103, 101, 110, 59, 32, 97, 110, 107, 108, 97, 103, 101, 110>>, <<948, 953, 974, 954, 969, 44, 32, 948, 953, 974, 958, 959, 956, 945, 953, 44, 32, 7952, 948, 943, 969, 958, 945, 44, 32, 948, 949, 948, 943, 969, 967, 945, 44, 32, 948, 949, 948, 943, 969, 947, 956, 945, 953, 44, 32, 7952, 948, 953, 974, 967, 952, 951, 957>>, <<>> >> >>,   \* διώκω
    << <<948, 959, 954, 941, 969>>, << <<115, 99, 104, 101, 105, 110, 101, 110, 59, 32, 109, 101, 105, 110, 101, 110, 44, 32, 103, 108, 97, 117, 98, 101, 110>>, <<948, 959, 954, 941, 969, 44, 32, 948, 972, 958, 969, 44, 32, 7956, 948, 959, 958, 945>>, <<948, 959, 954, 949, 8150, 32, 956, 959, 953, 32, 45, 32, 105, 99, 104, 32, 98, 101, 115, 99, 104, 108, 105, 101, 223, 101>> >> >>,   \* δοκέω
    << <<948, 972, 958, 945>>, << <<77, 101, 105, 110, 117, 110, 103, 59, 32, 83, 99, 104, 101, 105, 110, 59, 32, 82, 117, 102>>, <<948, 972, 958, 945, 44, 32, 951, 962, 44, 32, 7969>>, <<>> >> >>,   \* δόξα
    << <<948, 959, 958, 940, 950, 969>>, << <<109, 101, 105, 110, 101, 110>>, <<948, 959, 958, 940, 950, 969>>, <<>> >> >>,   \* δοξάζω
    << <<948, 959, 8166, 955, 959, 962>>, << <<83, 107, 108, 97, 118, 101, 44, 32, 75, 110, 101, 99, 104, 116>>, <<948, 959, 8166, 955, 959, 962, 44, 32, 959, 965, 44, 32, 8001>>, <<>> >> >>,   \* δοῦλος
    << <<948, 961, 940, 969>>, << <<116, 117, 110, 44, 32, 104, 97, 110, 100, 101, 108, 110>>, <<948, 961, 940, 969, 44, 32, 948, 961, 940, 963, 969, 44, 32, 7956, 948, 961, 945, 963, 945, 44, 32, 948, 941, 948, 961, 945, 954, 945, 44, 32, 948, 941, 948, 961, 945, 956, 945, 953, 44, 32, 7952, 948, 961, 940, 963, 952, 951, 957>>, <<>> >> >>,   \* δράω
    << <<948, 973, 957, 945, 956, 945, 953>>, << <<107, 246, 110, 110, 101, 110, 44, 32, 118, 101, 114, 109, 246, 103, 101, 110, 59, 32, 98, 101, 100, 101, 117, 116, 101, 110>>, <<948, 973, 957, 945, 956, 945, 953, 44, 32, 948, 965, 957, 942, 963, 959, 956, 945, 953, 44, 32, 7952, 948, 965, 957, 942, 952, 951, 957, 44, 32, 948, 949, 948, 973, 957, 951, 956, 945, 953>>, <<>> >> >>,   \* δύναμαι
    << <<948, 973, 957, 945, 956, 953, 962>>, << <<75, 114, 97, 102, 116, 44, 32, 77, 97, 99, 104, 116, 44, 32, 70, 228, 104, 105, 103, 107, 101, 105, 116>>, <<948, 973, 957, 945, 956, 953, 962, 44, 32, 949, 969, 962, 44, 32, 7969>>, <<>> >> >>,   \* δύναμις
    << <<948, 965, 957, 945, 964, 972, 962>>, << <<102, 228, 104, 105, 103, 59, 32, 109, 228, 99, 104, 116, 105, 103, 59, 32, 109, 246, 103, 108, 105, 99, 104>>, <<948, 965, 957, 945, 964, 972, 962, 44, 32, 942, 44, 32, 972, 957>>, <<>> >> >>,   \* δυνατός
    << <<948, 973, 959>>, << <<122, 119, 101, 105>>, <<948, 973, 959>>, <<>> >> >>,   \* δύο
    << <<948, 8182, 961, 959, 957>>, << <<71, 101, 115, 99, 104, 101, 110, 107, 44, 32, 71, 97, 98, 101>>, <<948, 8182, 961, 959, 957, 44, 32, 959, 965, 44, 32, 964, 972>>, <<>> >> >>,   \* δῶρον
    << <<7952, 940, 957>>, << <<119, 101, 110, 110, 59, 32, 105, 109, 109, 101, 114, 32, 119, 101, 110, 110>>, <<7952, 940, 957>>, <<>> >> >>,   \* ἐάν
    << <<7953, 945, 965, 964, 959, 8166>>, << <<115, 101, 105, 110, 101, 114, 47, 105, 104, 114, 101, 114, 32, 115, 101, 108, 98, 115, 116, 44, 32, 115, 105, 99, 104>>, <<7953, 945, 965, 964, 959, 8166, 44, 32, 7953, 945, 965, 964, 8134, 962, 44, 32, 7953, 945, 965, 964, 959, 8166>>, <<82, 101, 102, 108, 101, 120, 105, 118, 112, 114, 111, 110, 111, 109, 101, 110, 32, 100, 101, 114, 32, 51, 46, 80, 115, 46>> >> >>,   \* ἑαυτοῦ
    << <<7952, 940, 969>>, << <<108, 97, 115, 115, 101, 110, 44, 32, 122, 117, 108, 97, 115, 115, 101, 110>>, <<7952, 940, 969, 44, 32, 7952, 940, 963, 969, 44, 32, 949, 7988, 945, 963, 945>>, <<>> >> >>,   \* ἐάω
    << <<7952, 947, 974>>, << <<105, 99, 104>>, <<7952, 947, 974, 44, 32, 7952, 956, 959, 8166>>, <<>> >> >>,   \* ἐγώ
    << <<7952, 952, 941, 955, 969>>, << <<119, 111, 108, 108, 101, 110, 59, 32, 98, 101, 114, 101, 105, 116, 32, 115, 101, 105, 110>>, <<7952, 952, 941, 955, 969, 44, 32, 7952, 952, 949, 955, 942, 963, 969, 44, 32, 7968, 952, 941, 955, 951, 963, 945, 44, 32, 7968, 952, 941, 955, 951, 954, 945>>, <<>> >> >>,   \* ἐθέλω
    << <<7956, 952, 957, 959, 962>>, << <<86, 111, 108, 107, 44, 32, 86, 111, 108, 107, 115, 115, 116, 97, 109, 109>>, <<7956, 952, 957, 959, 962, 44, 32, 959, 965, 962, 44, 32, 964, 972>>, <<>> >> >>,   \* ἔθνος
    << <<7956, 952, 959, 962>>, << <<83, 105, 116, 116, 101, 59, 32, 71, 101, 119, 111, 104, 110, 104, 101, 105, 116>>, <<7956, 952, 959, 962, 44, 32, 959, 965, 962, 44, 32, 964, 972>>, <<>> >> >>,   \* ἔθος
    << <<949, 7984>>, << <<119, 101, 110, 110, 44, 32, 102, 97, 108, 108, 115, 59, 32, 111, 98>>, <<949, 7984>>, <<>> >> >>,   \* εἰ
    << <<949, 7984, 32, 947, 940, 961>>, << <<119, 101, 110, 110, 32, 100, 111, 99, 104, 44, 32, 104, 111, 102, 102, 101, 110, 116, 108, 105, 99, 104>>, <<949, 7984, 32, 947, 940, 961>>, <<>> >> >>,   \* εἰ γάρ
    << <<949, 7990, 948, 959, 962>>, << <<71, 101, 115, 116, 97, 108, 116, 44, 32, 65, 117, 115, 115, 101, 104, 101, 110, 59, 32, 73, 100, 101, 101>>, <<949, 7990, 948, 959, 962, 44, 32, 959, 965, 962, 44, 32, 964, 972>>, <<>> >> >>,   \* εἶδος
    << <<949, 7988, 948, 969, 955, 959, 957>>, << <<66, 105, 108, 100, 44, 32, 71, 246, 116, 116, 101, 114, 98, 105, 108, 100>>, <<949, 7988, 948, 969, 955, 959, 957, 44, 32, 959, 965, 44, 32, 964, 972>>, <<>> >> >>,   \* εἴδωλον
    << <<949, 7990, 949, 957>>, << <<110, 117, 110, 32, 103, 117, 116>>, <<949, 7990, 949, 957>>, <<>> >> >>,   \* εἶεν
    << <<949, 7990, 952, 949>>, << <<119, 101, 110, 110, 32, 100, 111, 99, 104, 44, 32, 104, 111, 102, 102, 101, 110, 116, 108, 105, 99, 104>>, <<949, 7990, 952, 949>>, <<>> >> >>,   \* εἶθε
    << <<949, 7984, 954, 972, 962>>, << <<87, 97, 104, 114, 115, 99, 104, 101, 105, 110, 108, 105, 99, 104, 107, 101, 105, 116, 59, 32, 65, 110, 103, 101, 109, 101, 115, 115, 101, 110, 104, 101, 105, 116>>, <<949, 7984, 954, 972, 962, 44, 32, 972, 964, 959, 962, 44, 32, 964, 972>>, <<949, 7984, 954, 972, 962, 32, 7952, 963, 964, 953, 32, 45, 32, 101, 115, 32, 105, 115, 116, 32, 119, 97, 104, 114, 115, 99, 104, 101, 105, 110, 108, 105, 99, 104, 47, 97, 110, 103, 101, 109, 101, 115, 115, 101, 110>> >> >>,   \* εἰκός
    << <<949, 7984, 954, 974, 957>>, << <<66, 105, 108, 100, 59, 32, 83, 116, 97, 116, 117, 101>>, <<949, 7984, 954, 974, 957, 44, 32, 972, 957, 959, 962, 44, 32, 7969>>, <<>> >> >>,   \* εἰκών
    << <<949, 7984, 956, 943>>, << <<115, 101, 105, 110>>, <<949, 7984, 956, 943, 44, 32, 7956, 963, 959, 956, 945, 953, 44, 32, 7974, 957>>, <<7956, 963, 964, 953, 957, 32, 45, 32, 101, 115, 32, 103, 105, 98, 116, 44, 32, 101, 115, 32, 105, 115, 116, 32, 109, 246, 103, 108, 105, 99, 104>> >> >>,   \* εἰμί
    << <<949, 7990, 956, 953>>, << <<103, 101, 104, 101, 110>>, <<949, 7990, 956, 953>>, <<70, 117, 116, 117, 114, 32, 122, 117, 32, 7956, 961, 967, 959, 956, 945, 953>> >> >>,   \* εἶμι
    << <<949, 7990, 960, 949, 961>>, << <<119, 101, 110, 110, 32, 119, 105, 114, 107, 108, 105, 99, 104>>, <<949, 7990, 960, 949, 961>>, <<>> >> >>,   \* εἶπερ
    << <<949, 7984, 961, 942, 957, 951>>, << <<70, 114, 105, 101, 100, 101>>, <<949, 7984, 961, 942, 957, 951, 44, 32, 951, 962, 44, 32, 7969>>, <<>> >> >>,   \* εἰρήνη
    << <<949, 7991, 962>>, << <<101, 105, 110, 101, 114>>, <<949, 7991, 962, 44, 32, 956, 943, 945, 44, 32, 7957, 957>>, <<>> >> >>,   \* εἷς
    << <<949, 7984, 962>>, << <<105, 110, 46, 46, 46, 104, 105, 110, 101, 105, 110, 59, 32, 122, 117, 46, 46, 46, 104, 105, 110>>, <<949, 7984, 962>>, <<>> >> >>,   \* εἰς
    << <<949, 7990, 964, 945>>, << <<100, 97, 44, 32, 100, 97, 110, 110, 59, 32, 102, 101, 114, 110, 101, 114>>, <<949, 7990, 964, 945>>, <<>> >> >>,   \* εἶτα
    << <<949, 7988, 964, 949, 46, 46, 46, 949, 7988, 964, 949>>, << <<115, 101, 105, 32, 101, 115, 46, 46, 46, 32, 115, 101, 105, 32, 101, 115>>, <<949, 7988, 964, 949, 46, 46, 46, 949, 7988, 964, 949>>, <<>> >> >>,   \* εἴτε...εἴτε
    << <<949, 7988, 969, 952, 945>>, << <<103, 101, 119, 111, 104, 110, 116, 32, 115, 101, 105, 110>>, <<949, 7988, 969, 952, 945>>, <<80, 101, 114, 102, 101, 107, 116, 32, 109, 105, 116, 32, 80, 114, 228, 115, 101, 110, 115, 98, 101, 100, 101, 117, 116, 117, 110, 103>> >> >>,   \* εἴωθα
    << <<7952, 954>>, << <<97, 117, 115, 59, 32, 115, 101, 105, 116, 59, 32, 105, 110, 102, 111, 108, 103, 101, 32, 118, 111, 110>>, <<7952, 954, 44, 32, 7952, 958>>, <<>> >> >>,   \* ἐκ
    << <<7957, 954, 945, 963, 964, 959, 962>>, << <<106, 101, 100, 101, 114>>, <<7957, 954, 945, 963, 964, 959, 962, 44, 32, 7953, 954, 940, 963, 964, 951, 44, 32, 7957, 954, 945, 963, 964, 959, 957>>, <<>> >> >>,   \* ἕκαστος
    << <<7953, 954, 940, 963, 964, 959, 964, 949>>, << <<106, 101, 100, 101, 115, 109, 97, 108>>, <<7953, 954, 940, 963, 964, 959, 964, 949>>, <<>> >> >>,   \* ἑκάστοτε
    << <<7953, 954, 940, 964, 949, 961, 959, 962>>, << <<106, 101, 100, 101, 114, 32, 118, 111, 110, 32, 98, 101, 105, 100, 101, 110>>, <<7953, 954, 940, 964, 949, 961, 959, 962, 44, 32, 7953, 954, 945, 964, 941, 961, 945, 44, 32, 7953, 954, 940, 964, 949, 961, 959, 957>>, <<>> >> >>,   \* ἑκάτερος
    << <<7953, 954, 945, 964, 972, 957>>, << <<104, 117, 110, 100, 101, 114, 116>>, <<7953, 954, 945, 964, 972, 957>>, <<>> >> >>,   \* ἑκατόν
    << <<7952, 954, 946, 940, 955, 955, 969>>, << <<104, 105, 110, 97, 117, 115, 119, 101, 114, 102, 101, 110, 44, 32, 118, 101, 114, 116, 114, 101, 105, 98, 101, 110>>, <<7952, 954, 946, 940, 955, 955, 969, 44, 32, 7952, 954, 946, 945, 955, 8182, 44, 32, 7952, 958, 941, 946, 945, 955, 959, 957, 44, 32, 7952, 954, 946, 941, 946, 955, 951, 954, 945, 44, 32, 7952, 954, 946, 941, 946, 955, 951, 956, 945, 953, 44, 32, 7952, 958, 949, 946, 955, 942, 952, 951, 957>>, <<>> >> >>,   \* ἐκβάλλω
    << <<7952, 954, 949, 8150>>, << <<100, 111, 114, 116>>, <<7952, 954, 949, 8150>>, <<>> >> >>,   \* ἐκεῖ
    << <<7952, 954, 949, 8150, 957, 959, 962>>, << <<106, 101, 110, 101, 114>>, <<7952, 954, 949, 8150, 957, 959, 962, 44, 32, 951, 44, 32, 959>>, <<>> >> >>,   \* ἐκεῖνος
    << <<7952, 954, 954, 955, 951, 963, 943, 945>>, << <<86, 111, 108, 107, 115, 118, 101, 114, 115, 97, 109, 109, 108, 117, 110, 103, 59, 32, 75, 105, 114, 99, 104, 101>>, <<7952, 954, 954, 955, 951, 963, 943, 945, 44, 32, 945, 962, 44, 32, 7969>>, <<>> >> >>,   \* ἐκκλησία
    << <<7952, 954, 960, 955, 942, 964, 964, 969>>, << <<101, 114, 115, 99, 104, 114, 101, 99, 107, 101, 110>>, <<7952, 954, 960, 955, 942, 964, 964, 969>>, <<>> >> >>,   \* ἐκπλήττω
    << <<7953, 954, 974, 957>>, << <<102, 114, 101, 105, 119, 105, 108, 108, 105, 103, 44, 32, 119, 105, 108, 108, 101, 110, 116, 108, 105, 99, 104>>, <<7953, 954, 974, 957, 44, 32, 7953, 954, 959, 8166, 963, 945, 44, 32, 7953, 954, 972, 957>>, <<>> >> >>,   \* ἑκών
    << <<7952, 955, 940, 964, 964, 969, 957>>, << <<107, 108, 101, 105, 110, 101, 114, 44, 32, 103, 101, 114, 105, 110, 103, 101, 114>>, <<7952, 955, 940, 964, 964, 969, 957, 44, 32, 959, 957>>, <<75, 111, 109, 112, 46, 32, 122, 117, 32, 956, 953, 954, 961, 972, 962, 47, 8000, 955, 943, 947, 959, 962>> >> >>,   \* ἐλάττων
    << <<7952, 955, 945, 973, 957, 969>>, << <<116, 114, 101, 105, 98, 101, 110, 44, 32, 109, 97, 114, 115, 99, 104, 105, 101, 114, 101, 110>>, <<7952, 955, 945, 973, 957, 969, 44, 32, 7952, 955, 8182, 44, 32, 7972, 955, 945, 963, 945, 44, 32, 7952, 955, 942, 955, 945, 954, 945, 44, 32, 7952, 955, 942, 955, 945, 956, 945, 953, 44, 32, 7968, 955, 940, 952, 951, 957>>, <<>> >> >>,   \* ἐλαύνω
    << <<7952, 955, 941, 947, 967, 969>>, << <<112, 114, 252, 102, 101, 110, 59, 32, 119, 105, 100, 101, 114, 108, 101, 103, 101, 110>>, <<7952, 955, 941, 947, 967, 969>>, <<>> >> >>,   \* ἐλέγχω
    << <<7952, 955, 949, 965, 952, 949, 961, 943, 945>>, << <<70, 114, 101, 105, 104, 101, 105, 116>>, <<7952, 955, 949, 965, 952, 949, 961, 943, 945, 44, 32, 945, 962, 44, 32, 7969>>, <<>> >> >>,   \* ἐλευθερία
    << <<7952, 955, 949, 973, 952, 949, 961, 959, 962>>, << <<102, 114, 101, 105>>, <<7952, 955, 949, 973, 952, 949, 961, 959, 962, 44, 32, 945, 44, 32, 959, 957>>, <<>> >> >>,   \* ἐλεύθερος
    << <<7952, 955, 960, 943, 950, 969>>, << <<104, 111, 102, 102, 101, 110, 44, 32, 101, 114, 119, 97, 114, 116, 101, 110>>, <<7952, 955, 960, 943, 950, 969>>, <<>> >> >>,   \* ἐλπίζω
    << <<7952, 955, 960, 943, 962>>, << <<72, 111, 102, 102, 110, 117, 110, 103, 44, 32, 69, 114, 119, 97, 114, 116, 117, 110, 103>>, <<7952, 955, 960, 943, 962, 44, 32, 943, 948, 959, 962, 44, 32, 7969>>, <<>> >> >>,   \* ἐλπίς
    << <<7952, 956, 945, 965, 964, 959, 8166>>, << <<109, 101, 105, 110, 101, 114, 32, 115, 101, 108, 98, 115, 116>>, <<7952, 956, 945, 965, 964, 959, 8166, 44, 32, 8134, 962, 44, 32, 959, 8166>>, <<82, 101, 102, 108, 101, 120, 105, 118, 112, 114, 111, 110, 111, 109, 101, 110, 32, 49, 46, 80, 115, 46>> >> >>,   \* ἐμαυτοῦ
    << <<7952, 956, 972, 962>>, << <<109, 101, 105, 110>>, <<7952, 956, 972, 962, 44, 32, 942, 44, 32, 972, 957>>, <<>> >> >>,   \* ἐμός
    << <<7956, 956, 960, 949, 953, 961, 959, 962>>, << <<101, 114, 102, 97, 104, 114, 101, 110, 44, 32, 107, 117, 110, 100, 105, 103>>, <<7956, 956, 960, 949, 953, 961, 959, 962, 44, 32, 959, 957>>, <<>> >> >>,   \* ἔμπειρος
    << <<7952, 956, 960, 943, 960, 964, 969>>, << <<104, 105, 110, 101, 105, 110, 102, 97, 108, 108, 101, 110, 44, 32, 103, 101, 114, 97, 116, 101, 110, 32, 105, 110>>, <<7952, 956, 960, 943, 960, 964, 969>>, <<>> >> >>,   \* ἐμπίπτω
    << <<7956, 956, 960, 961, 959, 963, 952, 949, 957>>, << <<118, 111, 114, 110, 101, 59, 32, 102, 114, 252, 104, 101, 114>>, <<7956, 956, 960, 961, 959, 963, 952, 949, 957>>, <<>> >> >>,   \* ἔμπροσθεν
    << <<7952, 957>>, << <<105, 110, 44, 32, 97, 110, 44, 32, 97, 117, 102, 44, 32, 98, 101, 105, 59, 32, 119, 228, 104, 114, 101, 110, 100>>, <<7952, 957>>, <<>> >> >>,   \* ἐν
    << <<7952, 957, 32, 8103>>, << <<119, 228, 104, 114, 101, 110, 100>>, <<7952, 957, 32, 8103>>, <<>> >> >>,   \* ἐν ᾧ
    << <<7952, 957, 945, 957, 964, 943, 959, 962>>, << <<103, 101, 103, 101, 110, 252, 98, 101, 114, 59, 32, 101, 110, 116, 103, 101, 103, 101, 110, 103, 101, 115, 101, 116, 122, 116>>, <<7952, 957, 945, 957, 964, 943, 959, 962, 44, 32, 945, 44, 32, 959, 957>>, <<8001, 32, 7952, 957, 945, 957, 964, 943, 959, 962, 32, 45, 32, 71, 101, 103, 110, 101, 114>> >> >>,   \* ἐναντίος
    << <<7956, 957, 949, 954, 945>>, << <<119, 101, 103, 101, 110, 59, 32, 117, 109, 46, 46, 46, 119, 105, 108, 108, 101, 110>>, <<7956, 957, 949, 954, 945>>, <<>> >> >>,   \* ἔνεκα
    << <<7956, 957, 952, 945>>, << <<100, 97, 44, 32, 100, 111, 114, 116>>, <<7956, 957, 952, 945>>, <<>> >> >>,   \* ἔνθα
    << <<7952, 957, 952, 940, 948, 949>>, << <<104, 105, 101, 114>>, <<7952, 957, 952, 940, 948, 949>>, <<>> >> >>,   \* ἐνθάδε
    << <<7952, 957, 952, 965, 956, 941, 959, 956, 945, 953>>, << <<98, 101, 100, 101, 110, 107, 101, 110, 44, 32, 252, 98, 101, 114, 108, 101, 103, 101, 110>>, <<7952, 957, 952, 965, 956, 941, 959, 956, 945, 953>>, <<>> >> >>,   \* ἐνθυμέομαι
    << <<7956, 957, 953, 959, 953>>, << <<101, 105, 110, 105, 103, 101>>, <<7956, 957, 953, 959, 953, 44, 32, 945, 953, 44, 32, 945>>, <<>> >> >>,   \* ἔνιοι
    << <<7952, 957, 943, 959, 964, 949>>, << <<109, 97, 110, 99, 104, 109, 97, 108>>, <<7952, 957, 943, 959, 964, 949>>, <<>> >> >>,   \* ἐνίοτε
    << <<7952, 957, 957, 959, 941, 969>>, << <<98, 101, 100, 101, 110, 107, 101, 110, 59, 32, 98, 101, 103, 114, 101, 105, 102, 101, 110>>, <<7952, 957, 957, 959, 941, 969>>, <<>> >> >>,   \* ἐννοέω
    << <<7952, 957, 964, 945, 8166, 952, 945>>, << <<104, 105, 101, 114, 59, 32, 100, 111, 114, 116>>, <<7952, 957, 964, 945, 8166, 952, 945>>, <<>> >> >>,   \* ἐνταῦθα
    << <<7952, 957, 964, 965, 947, 967, 940, 957, 969>>, << <<116, 114, 101, 102, 102, 101, 110, 32, 97, 117, 102, 44, 32, 103, 101, 114, 97, 116, 101, 110, 32, 105, 110>>, <<7952, 957, 964, 965, 947, 967, 940, 957, 969, 44, 32, 7952, 957, 964, 949, 973, 958, 959, 956, 945, 953, 44, 32, 7952, 957, 941, 964, 965, 967, 959, 957, 44, 32, 7952, 957, 964, 949, 964, 973, 967, 951, 954, 945>>, <<>> >> >>,   \* ἐντυγχάνω
    << <<7957, 958>>, << <<115, 101, 99, 104, 115>>, <<7957, 958>>, <<>> >> >>,   \* ἕξ
    << <<7952, 958, 32, 959, 8023>>, << <<115, 101, 105, 116, 100, 101, 109>>, <<7952, 958, 32, 959, 8023>>, <<>> >> >>,   \* ἐξ οὗ
    << <<7956, 958, 949, 963, 964, 953>>, << <<101, 115, 32, 105, 115, 116, 32, 109, 246, 103, 108, 105, 99, 104, 59, 32, 101, 115, 32, 105, 115, 116, 32, 101, 114, 108, 97, 117, 98, 116>>, <<7956, 958, 949, 963, 964, 953>>, <<>> >> >>,   \* ἔξεστι
    << <<7952, 958, 949, 964, 940, 950, 969>>, << <<117, 110, 116, 101, 114, 115, 117, 99, 104, 101, 110, 44, 32, 112, 114, 252, 102, 101, 110>>, <<7952, 958, 949, 964, 940, 950, 969>>, <<>> >> >>,   \* ἐξετάζω
    << <<7956, 959, 953, 954, 945>>, << <<115, 99, 104, 101, 105, 110, 101, 110, 59, 32, 103, 108, 101, 105, 99, 104, 101, 110>>, <<7956, 959, 953, 954, 945>>, <<80, 101, 114, 102, 101, 107, 116, 32, 109, 105, 116, 32, 80, 114, 228, 115, 101, 110, 115, 98, 101, 100, 101, 117, 116, 117, 110, 103>> >> >>,   \* ἔοικα
    << <<7952, 960, 945, 947, 947, 941, 955, 955, 959, 956, 945, 953>>, << <<97, 110, 107, 252, 110, 100, 105, 103, 101, 110, 59, 32, 97, 110, 103, 101, 98, 101, 110>>, <<7952, 960, 945, 947, 947, 941, 955, 955, 959, 956, 945, 953>>, <<>> >> >>,   \* ἐπαγγέλλομαι
    << <<7952, 960, 945, 953, 957, 941, 969>>, << <<108, 111, 98, 101, 110>>, <<7952, 960, 945, 953, 957, 941, 969>>, <<>> >> >>,   \* ἐπαινέω
    << <<7956, 960, 945, 953, 957, 959, 962>>, << <<76, 111, 98>>, <<7956, 960, 945, 953, 957, 959, 962, 44, 32, 959, 965, 44, 32, 8001>>, <<>> >> >>,   \* ἔπαινος
    << <<7952, 960, 949, 943>>, << <<97, 108, 115, 44, 32, 110, 97, 99, 104, 100, 101, 109, 59, 32, 100, 97, 44, 32, 119, 101, 105, 108>>, <<7952, 960, 949, 943>>, <<>> >> >>,   \* ἐπεί
    << <<7952, 960, 949, 953, 948, 942>>, << <<97, 108, 115, 44, 32, 110, 97, 99, 104, 100, 101, 109, 59, 32, 100, 97, 44, 32, 119, 101, 105, 108>>, <<7952, 960, 949, 953, 948, 942>>, <<>> >> >>,   \* ἐπειδή
    << <<7956, 960, 949, 953, 956, 953>>, << <<104, 105, 110, 103, 101, 104, 101, 110, 59, 32, 97, 110, 103, 114, 101, 105, 102, 101, 110>>, <<7956, 960, 949, 953, 956, 953>>, <<>> >> >>,   \* ἔπειμι
    << <<7956, 960, 949, 953, 964, 945>>, << <<100, 97, 110, 110, 44, 32, 100, 97, 114, 97, 117, 102>>, <<7956, 960, 949, 953, 964, 945>>, <<>> >> >>,   \* ἔπειτα
    << <<7952, 960, 943>>, << <<97, 117, 102, 32, 40, 43, 71, 101, 110, 46, 41, 59, 32, 98, 101, 105, 32, 40, 43, 68, 97, 116, 46, 41, 59, 32, 122, 117, 32, 40, 43, 65, 107, 107, 46, 41>>, <<7952, 960, 943>>, <<>> >> >>,   \* ἐπί
    << <<7952, 960, 953, 946, 959, 965, 955, 949, 973, 969>>, << <<101, 105, 110, 101, 110, 32, 65, 110, 115, 99, 104, 108, 97, 103, 32, 112, 108, 97, 110, 101, 110>>, <<7952, 960, 953, 946, 959, 965, 955, 949, 973, 969>>, <<>> >> >>,   \* ἐπιβουλεύω
    << <<7952, 960, 953, 948, 949, 943, 954, 957, 965, 956, 953>>, << <<118, 111, 114, 122, 101, 105, 103, 101, 110, 44, 32, 122, 117, 114, 32, 83, 99, 104, 97, 117, 32, 115, 116, 101, 108, 108, 101, 110>>, <<7952, 960, 953, 948, 949, 943, 954, 957, 965, 956, 953>>, <<>> >> >>,   \* ἐπιδείκνυμι
    << <<7952, 960, 953, 952, 965, 956, 941, 969>>, << <<98, 101, 103, 101, 104, 114, 101, 110, 44, 32, 119, 111, 108, 108, 101, 110>>, <<7952, 960, 953, 952, 965, 956, 941, 969>>, <<>> >> >>,   \* ἐπιθυμέω
    << <<7952, 960, 953, 952, 965, 956, 943, 945>>, << <<66, 101, 103, 105, 101, 114, 100, 101, 44, 32, 86, 101, 114, 108, 97, 110, 103, 101, 110>>, <<7952, 960, 953, 952, 965, 956, 943, 945, 44, 32, 945, 962, 44, 32, 7969>>, <<>> >> >>,   \* ἐπιθυμία
    << <<7952, 960, 953, 955, 945, 957, 952, 940, 957, 959, 956, 945, 953>>, << <<118, 101, 114, 103, 101, 115, 115, 101, 110>>, <<7952, 960, 953, 955, 945, 957, 952, 940, 957, 959, 956, 945, 953, 44, 32, 7952, 960, 953, 955, 942, 963, 959, 956, 945, 953, 44, 32, 7952, 960, 949, 955, 945, 952, 972, 956, 951, 957, 44, 32, 7952, 960, 953, 955, 941, 955, 951, 963, 956, 945, 953>>, <<>> >> >>,   \* ἐπιλανθάνομαι
    << <<7952, 960, 953, 956, 941, 955, 949, 953, 945>>, << <<83, 111, 114, 103, 101, 44, 32, 70, 252, 114, 115, 111, 114, 103, 101>>, <<7952, 960, 953, 956, 941, 955, 949, 953, 945, 44, 32, 945, 962, 44, 32, 7969>>, <<>> >> >>,   \* ἐπιμέλεια
    << <<7952, 960, 953, 956, 949, 955, 941, 959, 956, 945, 953>>, << <<115, 105, 99, 104, 32, 107, 252, 109, 109, 101, 114, 110>>, <<7952, 960, 953, 956, 949, 955, 941, 959, 956, 945, 953>>, <<>> >> >>,   \* ἐπιμελέομαι
    << <<7952, 960, 943, 963, 964, 945, 956, 945, 953>>, << <<118, 101, 114, 115, 116, 101, 104, 101, 110, 59, 32, 119, 105, 115, 115, 101, 110, 59, 32, 107, 246, 110, 110, 101, 110>>, <<7952, 960, 943, 963, 964, 945, 956, 945, 953>>, <<>> >> >>,   \* ἐπίσταμαι
    << <<7952, 960, 953, 963, 964, 942, 956, 951>>, << <<87, 105, 115, 115, 101, 110, 44, 32, 87, 105, 115, 115, 101, 110, 115, 99, 104, 97, 102, 116>>, <<7952, 960, 953, 963, 964, 942, 956, 951, 44, 32, 951, 962, 44, 32, 7969>>, <<>> >> >>,   \* ἐπιστήμη
    << <<7952, 960, 953, 963, 964, 959, 955, 942>>, << <<66, 114, 105, 101, 102>>, <<7952, 960, 953, 963, 964, 959, 955, 942, 44, 32, 8134, 962, 44, 32, 7969>>, <<>> >> >>,   \* ἐπιστολή
    << <<7952, 960, 953, 964, 942, 948, 949, 953, 959, 962>>, << <<103, 101, 101, 105, 103, 110, 101, 116, 44, 32, 112, 97, 115, 115, 101, 110, 100>>, <<7952, 960, 953, 964, 942, 948, 949, 953, 959, 962, 44, 32, 959, 957>>, <<964, 8048, 32, 7952, 960, 953, 964, 942, 948, 949, 953, 945, 32, 45, 32, 76, 101, 98, 101, 110, 115, 109, 105, 116, 116, 101, 108>> >> >>,   \* ἐπιτήδειος
    << <<7952, 960, 953, 964, 943, 952, 951, 956, 953>>, << <<100, 97, 114, 97, 117, 102, 108, 101, 103, 101, 110, 59, 32, 122, 117, 102, 252, 103, 101, 110>>, <<7952, 960, 953, 964, 943, 952, 951, 956, 953>>, <<>> >> >>,   \* ἐπιτίθημι
    << <<7952, 960, 953, 964, 961, 941, 960, 969>>, << <<252, 98, 101, 114, 108, 97, 115, 115, 101, 110, 59, 32, 103, 101, 115, 116, 97, 116, 116, 101, 110>>, <<7952, 960, 953, 964, 961, 941, 960, 969>>, <<>> >> >>,   \* ἐπιτρέπω
    << <<7952, 960, 953, 967, 949, 953, 961, 941, 969>>, << <<118, 101, 114, 115, 117, 99, 104, 101, 110, 59, 32, 97, 110, 103, 114, 101, 105, 102, 101, 110>>, <<7952, 960, 953, 967, 949, 953, 961, 941, 969>>, <<>> >> >>,   \* ἐπιχειρέω
    << <<7957, 960, 959, 956, 945, 953>>, << <<102, 111, 108, 103, 101, 110>>, <<7957, 960, 959, 956, 945, 953, 44, 32, 7957, 968, 959, 956, 945, 953, 44, 32, 7953, 963, 960, 972, 956, 951, 957>>, <<>> >> >>,   \* ἕπομαι
    << <<7956, 960, 959, 962>>, << <<87, 111, 114, 116>>, <<7956, 960, 959, 962, 44, 32, 959, 965, 962, 44, 32, 964, 972>>, <<>> >> >>,   \* ἔπος
    << <<7952, 961, 940, 969>>, << <<108, 105, 101, 98, 101, 110, 44, 32, 98, 101, 103, 101, 104, 114, 101, 110>>, <<7952, 961, 940, 969>>, <<>> >> >>,   \* ἐράω
    << <<7952, 961, 947, 940, 950, 959, 956, 945, 953>>, << <<97, 114, 98, 101, 105, 116, 101, 110, 44, 32, 116, 117, 110>>, <<7952, 961, 947, 940, 950, 959, 956, 945, 953, 44, 32, 7952, 961, 947, 940, 963, 959, 956, 945, 953, 44, 32, 949, 7984, 961, 947, 945, 963, 940, 956, 951, 957, 44, 32, 949, 7988, 961, 947, 945, 963, 956, 945, 953>>, <<>> >> >>,   \* ἐργάζομαι
    << <<7956, 961, 947, 959, 957>>, << <<87, 101, 114, 107, 44, 32, 65, 114, 98, 101, 105, 116, 59, 32, 84, 97, 116>>, <<7956, 961, 947, 959, 957, 44, 32, 959, 965, 44, 32, 964, 972>>, <<>> >> >>,   \* ἔργον
    << <<7956, 961, 951, 956, 959, 962>>, << <<101, 105, 110, 115, 97, 109, 44, 32, 118, 101, 114, 108, 97, 115, 115, 101, 110>>, <<7956, 961, 951, 956, 959, 962, 44, 32, 951, 44, 32, 959, 957>>, <<>> >> >>,   \* ἔρημος
    << <<7956, 961, 953, 962>>, << <<83, 116, 114, 101, 105, 116, 44, 32, 90, 97, 110, 107>>, <<7956, 961, 953, 962, 44, 32, 953, 948, 959, 962, 44, 32, 7969>>, <<>> >> >>,   \* ἔρις
    << <<7956, 961, 967, 959, 956, 945, 953>>, << <<103, 101, 104, 101, 110, 44, 32, 107, 111, 109, 109, 101, 110>>, <<7956, 961, 967, 959, 956, 945, 953, 44, 32, 949, 7990, 956, 953, 44, 32, 7974, 955, 952, 959, 957, 44, 32, 7952, 955, 942, 955, 965, 952, 945>>, <<>> >> >>,   \* ἔρχομαι
    << <<7956, 961, 969, 962>>, << <<76, 105, 101, 98, 101, 44, 32, 86, 101, 114, 108, 97, 110, 103, 101, 110>>, <<7956, 961, 969, 962, 44, 32, 969, 964, 959, 962, 44, 32, 8001>>, <<>> >> >>,   \* ἔρως
    << <<7952, 961, 969, 964, 940, 969>>, << <<102, 114, 97, 103, 101, 110>>, <<7952, 961, 969, 964, 940, 969, 44, 32, 7952, 961, 942, 963, 959, 956, 945, 953, 44, 32, 7968, 961, 972, 956, 951, 957>>, <<>> >> >>,   \* ἐρωτάω
    << <<7952, 963, 952, 943, 969>>, << <<101, 115, 115, 101, 110>>, <<7952, 963, 952, 943, 969>>, <<>> >> >>,   \* ἐσθίω
    << <<7953, 963, 960, 941, 961, 945>>, << <<65, 98, 101, 110, 100>>, <<7953, 963, 960, 941, 961, 945, 44, 32, 945, 962, 44, 32, 7969>>, <<>> >> >>,   \* ἑσπέρα
    << <<7956, 963, 967, 945, 964, 959, 962>>, << <<108, 101, 116, 122, 116, 101, 114, 44, 32, 228, 117, 223, 101, 114, 115, 116, 101, 114>>, <<7956, 963, 967, 945, 964, 959, 962, 44, 32, 951, 44, 32, 959, 957>>, <<>> >> >>,   \* ἔσχατος
    << <<7953, 964, 945, 8150, 961, 959, 962>>, << <<70, 114, 101, 117, 110, 100, 44, 32, 71, 101, 102, 228, 104, 114, 116, 101>>, <<7953, 964, 945, 8150, 961, 959, 962, 44, 32, 959, 965, 44, 32, 8001>>, <<>> >> >>,   \* ἑταῖρος
    << <<7957, 964, 949, 961, 959, 962>>, << <<100, 101, 114, 32, 97, 110, 100, 101, 114, 101>>, <<7957, 964, 949, 961, 959, 962, 44, 32, 945, 44, 32, 959, 957>>, <<>> >> >>,   \* ἕτερος
    << <<7956, 964, 953>>, << <<110, 111, 99, 104>>, <<7956, 964, 953>>, <<>> >> >>,   \* ἔτι
    << <<7957, 964, 959, 953, 956, 959, 962>>, << <<98, 101, 114, 101, 105, 116>>, <<7957, 964, 959, 953, 956, 959, 962, 44, 32, 951, 44, 32, 959, 957>>, <<>> >> >>,   \* ἕτοιμος
    << <<7956, 964, 959, 962>>, << <<74, 97, 104, 114>>, <<7956, 964, 959, 962, 44, 32, 959, 965, 962, 44, 32, 964, 972>>, <<>> >> >>,   \* ἔτος
    << <<949, 8022>>, << <<103, 117, 116>>, <<949, 8022>>, <<>> >> >>,   \* εὖ
    << <<949, 8016, 948, 945, 953, 956, 959, 957, 943, 945>>, << <<71, 108, 252, 99, 107, 44, 32, 71, 108, 252, 99, 107, 115, 101, 108, 105, 103, 107, 101, 105, 116>>, <<949, 8016, 948, 945, 953, 956, 959, 957, 943, 945, 44, 32, 945, 962, 44, 32, 7969>>, <<>> >> >>,   \* εὐδαιμονία
    << <<949, 8016, 948, 945, 943, 956, 969, 957>>, << <<103, 108, 252, 99, 107, 108, 105, 99, 104, 44, 32, 115, 101, 108, 105, 103>>, <<949, 8016, 948, 945, 943, 956, 969, 957, 44, 32, 959, 957>>, <<>> >> >>,   \* εὐδαίμων
    << <<949, 8016, 952, 973, 962>>, << <<115, 111, 102, 111, 114, 116>>, <<949, 8016, 952, 973, 962>>, <<>> >> >>,   \* εὐθύς
    << <<949, 8017, 961, 943, 963, 954, 969>>, << <<102, 105, 110, 100, 101, 110, 44, 32, 101, 114, 102, 105, 110, 100, 101, 110>>, <<949, 8017, 961, 943, 963, 954, 969, 44, 32, 949, 8017, 961, 942, 963, 969, 44, 32, 951, 8023, 961, 959, 957, 47, 949, 8023, 961, 959, 957, 44, 32, 951, 8021, 961, 951, 954, 945, 47, 949, 8021, 961, 951, 954, 945>>, <<>> >> >>,   \* εὑρίσκω
    << <<949, 8016, 967, 942>>, << <<71, 101, 98, 101, 116, 44, 32, 66, 105, 116, 116, 101>>, <<949, 8016, 967, 942, 44, 32, 8134, 962, 44, 32, 7969>>, <<>> >> >>,   \* εὐχή
    << <<949, 8020, 967, 959, 956, 945, 953>>, << <<98, 101, 116, 101, 110, 59, 32, 101, 114, 102, 108, 101, 104, 101, 110>>, <<949, 8020, 967, 959, 956, 945, 953>>, <<>> >> >>,   \* εὔχομαι
    << <<7952, 966, 943, 963, 964, 951, 956, 953>>, << <<118, 111, 114, 97, 110, 115, 116, 101, 108, 108, 101, 110>>, <<7952, 966, 943, 963, 964, 951, 956, 953>>, <<>> >> >>,   \* ἐφίστημι
    << <<7952, 967, 952, 961, 972, 962>>, << <<102, 101, 105, 110, 100, 108, 105, 99, 104, 44, 32, 118, 101, 114, 104, 97, 115, 115, 116>>, <<7952, 967, 952, 961, 972, 962, 44, 32, 940, 44, 32, 972, 957>>, <<8001, 32, 7952, 967, 952, 961, 972, 962, 32, 45, 32, 100, 101, 114, 32, 70, 101, 105, 110, 100>> >> >>,   \* ἐχθρός
    << <<7956, 967, 969>>, << <<104, 97, 98, 101, 110, 44, 32, 104, 97, 108, 116, 101, 110, 59, 32, 107, 246, 110, 110, 101, 110>>, <<7956, 967, 969, 44, 32, 7957, 958, 969, 47, 963, 967, 942, 963, 969, 44, 32, 7956, 963, 967, 959, 957, 44, 32, 7956, 963, 967, 951, 954, 945>>, <<949, 8022, 32, 7956, 967, 969, 32, 45, 32, 101, 115, 32, 103, 101, 104, 116, 32, 109, 105, 114, 32, 103, 117, 116>> >> >>,   \* ἔχω
    << <<918, 949, 973, 962>>, << <<90, 101, 117, 115>>, <<918, 949, 973, 962, 44, 32, 916, 953, 972, 962, 44, 32, 8001>>, <<957, 8052, 32, 916, 943, 945, 47, 956, 8048, 32, 916, 943, 945, 32, 45, 32, 98, 101, 105, 32, 90, 101, 117, 115, 33>> >> >>,   \* Ζεύς
    << <<950, 951, 955, 972, 969>>, << <<110, 97, 99, 104, 101, 105, 102, 101, 114, 110, 44, 32, 98, 101, 119, 117, 110, 100, 101, 114, 110>>, <<950, 951, 955, 972, 969>>, <<>> >> >>,   \* ζηλόω
    << <<950, 951, 956, 943, 945>>, << <<83, 116, 114, 97, 102, 101>>, <<950, 951, 956, 943, 945, 44, 32, 945, 962, 44, 32, 7969>>, <<>> >> >>,   \* ζημία
    << <<950, 951, 964, 941, 969>>, << <<115, 117, 99, 104, 101, 110, 59, 32, 117, 110, 116, 101, 114, 115, 117, 99, 104, 101, 110, 59, 32, 115, 116, 114, 101, 98, 101, 110>>, <<950, 951, 964, 941, 969, 44, 32, 950, 951, 964, 942, 963, 969, 44, 32, 7952, 950, 942, 964, 951, 963, 945, 44, 32, 7952, 950, 942, 964, 951, 954, 945>>, <<>> >> >>,   \* ζητέω
    << <<950, 942, 964, 951, 963, 953, 962>>, << <<85, 110, 116, 101, 114, 115, 117, 99, 104, 117, 110, 103>>, <<950, 942, 964, 951, 963, 953, 962, 44, 32, 949, 969, 962, 44, 32, 7969>>, <<>> >> >>,   \* ζήτησις
    << <<950, 940, 969>>, << <<108, 101, 98, 101, 110>>, <<950, 940, 969, 44, 32, 950, 942, 963, 969, 44, 32, 7956, 950, 951, 963, 945, 44, 32, 7956, 950, 951, 954, 945>>, <<>> >> >>,   \* ζάω
    << <<950, 969, 942>>, << <<76, 101, 98, 101, 110>>, <<950, 969, 942, 44, 32, 8134, 962, 44, 32, 7969>>, <<>> >> >>,   \* ζωή
    << <<950, 8183, 959, 957>>, << <<76, 101, 98, 101, 119, 101, 115, 101, 110, 59, 32, 84, 105, 101, 114>>, <<950, 8183, 959, 957, 44, 32, 959, 965, 44, 32, 964, 972>>, <<>> >> >>,   \* ζῷον
    << <<7972>>, << <<111, 100, 101, 114, 59, 32, 97, 108, 115>>, <<7972>>, <<>> >> >>,   \* ἤ
    << <<7969, 947, 949, 956, 974, 957>>, << <<70, 252, 104, 114, 101, 114, 44, 32, 65, 110, 102, 252, 104, 114, 101, 114>>, <<7969, 947, 949, 956, 974, 957, 44, 32, 972, 957, 959, 962, 44, 32, 8001>>, <<>> >> >>,   \* ἡγεμών
    << <<7969, 947, 941, 959, 956, 945, 953>>, << <<102, 252, 104, 114, 101, 110, 59, 32, 103, 108, 97, 117, 98, 101, 110, 44, 32, 109, 101, 105, 110, 101, 110>>, <<7969, 947, 941, 959, 956, 945, 953, 44, 32, 7969, 947, 942, 963, 959, 956, 945, 953, 44, 32, 7969, 947, 951, 963, 940, 956, 951, 957>>, <<>> >> >>,   \* ἡγέομαι
    << <<7972, 948, 951>>, << <<115, 99, 104, 111, 110>>, <<7972, 948, 951>>, <<>> >> >>,   \* ἤδη
    << <<7973, 948, 959, 956, 945, 953>>, << <<115, 105, 99, 104, 32, 102, 114, 101, 117, 101, 110>>, <<7973, 948, 959, 956, 945, 953>>, <<>> >> >>,   \* ἥδομαι
    << <<7969, 948, 959, 957, 942>>, << <<86, 101, 114, 103, 110, 252, 103, 101, 110, 44, 32, 76, 117, 115, 116>>, <<7969, 948, 959, 957, 942, 44, 32, 8134, 962, 44, 32, 7969>>, <<>> >> >>,   \* ἡδονή
    << <<7969, 948, 973, 962>>, << <<115, 252, 223, 44, 32, 97, 110, 103, 101, 110, 101, 104, 109>>, <<7969, 948, 973, 962, 44, 32, 949, 8150, 945, 44, 32, 973>>, <<>> >> >>,   \* ἡδύς
    << <<7974, 952, 959, 962>>, << <<67, 104, 97, 114, 97, 107, 116, 101, 114, 44, 32, 87, 101, 115, 101, 110, 115, 97, 114, 116>>, <<7974, 952, 959, 962, 44, 32, 959, 965, 962, 44, 32, 964, 972>>, <<>> >> >>,   \* ἦθος
    << <<7973, 954, 969>>, << <<107, 111, 109, 109, 101, 110, 44, 32, 100, 97, 32, 115, 101, 105, 110>>, <<7973, 954, 969, 44, 32, 7973, 958, 969>>, <<>> >> >>,   \* ἥκω
    << <<7969, 955, 953, 954, 943, 945>>, << <<76, 101, 98, 101, 110, 115, 97, 108, 116, 101, 114>>, <<7969, 955, 953, 954, 943, 945, 44, 32, 945, 962, 44, 32, 7969>>, <<>> >> >>,   \* ἡλικία
    << <<7973, 955, 953, 959, 962>>, << <<83, 111, 110, 110, 101>>, <<7973, 955, 953, 959, 962, 44, 32, 959, 965, 44, 32, 8001>>, <<>> >> >>,   \* ἥλιος
    << <<7969, 956, 949, 8150, 962>>, << <<119, 105, 114>>, <<7969, 956, 949, 8150, 962, 44, 32, 7969, 956, 8182, 957, 44, 32, 7969, 956, 8150, 957, 44, 32, 7969, 956, 8118, 962>>, <<>> >> >>,   \* ἡμεῖς
    << <<7969, 956, 941, 961, 945>>, << <<84, 97, 103>>, <<7969, 956, 941, 961, 945, 44, 32, 945, 962, 44, 32, 7969>>, <<>> >> >>,   \* ἡμέρα
    << <<7969, 956, 941, 964, 949, 961, 959, 962>>, << <<117, 110, 115, 101, 114>>, <<7969, 956, 941, 964, 949, 961, 959, 962, 44, 32, 945, 44, 32, 959, 957>>, <<>> >> >>,   \* ἡμέτερος
    << <<7973, 961, 969, 962>>, << <<72, 101, 108, 100, 44, 32, 72, 97, 108, 98, 103, 111, 116, 116>>, <<7973, 961, 969, 962, 44, 32, 969, 959, 962, 44, 32, 8001>>, <<>> >> >>,   \* ἥρως
    << <<7969, 963, 965, 967, 943, 945>>, << <<82, 117, 104, 101>>, <<7969, 963, 965, 967, 943, 945, 44, 32, 945, 962, 44, 32, 7969>>, <<7969, 963, 965, 967, 943, 945, 957, 32, 7940, 947, 969, 32, 45, 32, 82, 117, 104, 101, 32, 98, 101, 119, 97, 104, 114, 101, 110>> >> >>,   \* ἡσυχία
    << <<7973, 964, 964, 969, 957>>, << <<103, 101, 114, 105, 110, 103, 101, 114, 44, 32, 115, 99, 104, 119, 228, 99, 104, 101, 114>>, <<7973, 964, 964, 969, 957, 44, 32, 7975, 964, 964, 959, 957>>, <<959, 8016, 948, 8050, 957, 32, 7975, 964, 964, 959, 957, 32, 45, 32, 116, 114, 111, 116, 122, 100, 101, 109>> >> >>,   \* ἥττων
    << <<952, 940, 955, 945, 964, 964, 945>>, << <<77, 101, 101, 114>>, <<952, 940, 955, 945, 964, 964, 945, 44, 32, 951, 962, 44, 32, 7969>>, <<>> >> >>,   \* θάλαττα
    << <<952, 940, 957, 945, 964, 959, 962>>, << <<84, 111, 100>>, <<952, 940, 957, 945, 964, 959, 962, 44, 32, 959, 965, 44, 32, 8001>>, <<>> >> >>,   \* θάνατος
    << <<952, 940, 960, 964, 969>>, << <<98, 101, 115, 116, 97, 116, 116, 101, 110, 44, 32, 98, 101, 103, 114, 97, 98, 101, 110>>, <<952, 940, 960, 964, 969>>, <<>> >> >>,   \* θάπτω
    << <<952, 945, 961, 961, 941, 969>>, << <<107, 252, 104, 110, 32, 115, 101, 105, 110, 44, 32, 109, 117, 116, 105, 103, 32, 115, 101, 105, 110>>, <<952, 945, 961, 961, 941, 969>>, <<>> >> >>,   \* θαρρέω
    << <<952, 945, 965, 956, 940, 950, 969>>, << <<115, 116, 97, 117, 110, 101, 110, 44, 32, 98, 101, 119, 117, 110, 100, 101, 114, 110>>, <<952, 945, 965, 956, 940, 950, 969, 44, 32, 952, 945, 965, 956, 940, 963, 959, 956, 945, 953, 44, 32, 7952, 952, 945, 973, 956, 945, 963, 945, 44, 32, 964, 949, 952, 945, 973, 956, 945, 954, 945>>, <<>> >> >>,   \* θαυμάζω
    << <<952, 945, 965, 956, 940, 963, 953, 959, 962>>, << <<101, 114, 115, 116, 97, 117, 110, 108, 105, 99, 104, 44, 32, 119, 117, 110, 100, 101, 114, 98, 97, 114>>, <<952, 945, 965, 956, 940, 963, 953, 959, 962, 44, 32, 945, 44, 32, 959, 957>>, <<>> >> >>,   \* θαυμάσιος
    << <<952, 949, 940, 959, 956, 945, 953>>, << <<98, 101, 116, 114, 97, 99, 104, 116, 101, 110, 44, 32, 97, 110, 115, 99, 104, 97, 117, 101, 110>>, <<952, 949, 940, 959, 956, 945, 953, 44, 32, 952, 949, 940, 963, 959, 956, 945, 953, 44, 32, 7952, 952, 949, 945, 963, 940, 956, 951, 957, 44, 32, 964, 949, 952, 941, 945, 956, 945, 953>>, <<>> >> >>,   \* θεάομαι
    << <<952, 941, 945, 964, 961, 959, 957>>, << <<84, 104, 101, 97, 116, 101, 114>>, <<952, 941, 945, 964, 961, 959, 957, 44, 32, 959, 965, 44, 32, 964, 972>>, <<>> >> >>,   \* θέατρον
    << <<952, 949, 8150, 959, 962>>, << <<103, 246, 116, 116, 108, 105, 99, 104>>, <<952, 949, 8150, 959, 962, 44, 32, 952, 949, 943, 945, 44, 32, 952, 949, 8150, 959, 957>>, <<>> >> >>,   \* θεῖος
    << <<952, 949, 972, 962>>, << <<71, 111, 116, 116, 44, 32, 71, 246, 116, 116, 105, 110>>, <<952, 949, 972, 962, 44, 32, 959, 8166, 44, 32, 8001, 47, 7969>>, <<>> >> >>,   \* θεός
    << <<952, 949, 961, 945, 960, 949, 973, 969>>, << <<118, 101, 114, 101, 104, 114, 101, 110, 59, 32, 112, 102, 108, 101, 103, 101, 110>>, <<952, 949, 961, 945, 960, 949, 973, 969>>, <<>> >> >>,   \* θεραπεύω
    << <<952, 949, 961, 956, 972, 962>>, << <<119, 97, 114, 109>>, <<952, 949, 961, 956, 972, 962, 44, 32, 942, 44, 32, 972, 957>>, <<>> >> >>,   \* θερμός
    << <<952, 949, 969, 961, 941, 969>>, << <<98, 101, 116, 114, 97, 99, 104, 116, 101, 110, 44, 32, 122, 117, 115, 99, 104, 97, 117, 101, 110>>, <<952, 949, 969, 961, 941, 969>>, <<>> >> >>,   \* θεωρέω
    << <<952, 951, 961, 940, 969>>, << <<106, 97, 103, 101, 110, 44, 32, 101, 114, 106, 97, 103, 101, 110>>, <<952, 951, 961, 940, 969>>, <<>> >> >>,   \* θηράω
    << <<952, 951, 963, 945, 965, 961, 972, 962>>, << <<83, 99, 104, 97, 116, 122, 107, 97, 109, 109, 101, 114, 44, 32, 83, 99, 104, 97, 116, 122>>, <<952, 951, 963, 945, 965, 961, 972, 962, 44, 32, 959, 8166, 44, 32, 8001>>, <<>> >> >>,   \* θησαυρός
    << <<952, 957, 951, 964, 972, 962>>, << <<115, 116, 101, 114, 98, 108, 105, 99, 104>>, <<952, 957, 951, 964, 972, 962, 44, 32, 942, 44, 32, 972, 957>>, <<>> >> >>,   \* θνητός
    << <<952, 961, 972, 957, 959, 962>>, << <<83, 101, 115, 115, 101, 108, 44, 32, 84, 104, 114, 111, 110>>, <<952, 961, 972, 957, 959, 962, 44, 32, 959, 965, 44, 32, 8001>>, <<>> >> >>,   \* θρόνος
    << <<952, 965, 947, 940, 964, 951, 961>>, << <<84, 111, 99, 104, 116, 101, 114>>, <<952, 965, 947, 940, 964, 951, 961, 44, 32, 964, 961, 972, 962, 44, 32, 7969>>, <<>> >> >>,   \* θυγάτηρ
    << <<952, 965, 956, 972, 962>>, << <<77, 117, 116, 44, 32, 90, 111, 114, 110, 59, 32, 72, 101, 114, 122, 44, 32, 71, 101, 109, 252, 116>>, <<952, 965, 956, 972, 962, 44, 32, 959, 8166, 44, 32, 8001>>, <<>> >> >>,   \* θυμός
    << <<952, 973, 961, 945>>, << <<84, 252, 114, 44, 32, 84, 111, 114>>, <<952, 973, 961, 945, 44, 32, 945, 962, 44, 32, 7969>>, <<>> >> >>,   \* θύρα
    << <<952, 973, 969>>, << <<111, 112, 102, 101, 114, 110>>, <<952, 973, 969, 44, 32, 952, 973, 963, 969, 44, 32, 7956, 952, 965, 963, 945, 44, 32, 964, 941, 952, 965, 954, 945>>, <<>> >> >>,   \* θύω
    << <<7984, 945, 964, 961, 953, 954, 942>>, << <<72, 101, 105, 108, 107, 117, 110, 115, 116>>, <<7984, 945, 964, 961, 953, 954, 942, 44, 32, 8134, 962, 44, 32, 7969>>, <<>> >> >>,   \* ἰατρική
    << <<7984, 945, 964, 961, 972, 962>>, << <<65, 114, 122, 116>>, <<7984, 945, 964, 961, 972, 962, 44, 32, 959, 8166, 44, 32, 8001>>, <<>> >> >>,   \* ἰατρός
    << <<7988, 948, 953, 959, 962>>, << <<101, 105, 103, 101, 110, 59, 32, 112, 114, 105, 118, 97, 116>>, <<7988, 948, 953, 959, 962, 44, 32, 943, 945, 44, 32, 953, 959, 957>>, <<7984, 948, 943, 8115, 32, 45, 32, 112, 114, 105, 118, 97, 116>> >> >>,   \* ἴδιος
    << <<7984, 948, 953, 974, 964, 951, 962>>, << <<80, 114, 105, 118, 97, 116, 109, 97, 110, 110, 44, 32, 76, 97, 105, 101>>, <<7984, 948, 953, 974, 964, 951, 962, 44, 32, 959, 965, 44, 32, 8001>>, <<>> >> >>,   \* ἰδιώτης
    << <<7985, 949, 961, 972, 962>>, << <<104, 101, 105, 108, 105, 103, 44, 32, 103, 101, 119, 101, 105, 104, 116>>, <<7985, 949, 961, 972, 962, 44, 32, 940, 44, 32, 972, 957>>, <<>> >> >>,   \* ἱερός
    << <<7989, 951, 956, 953>>, << <<105, 110, 32, 66, 101, 119, 101, 103, 117, 110, 103, 32, 115, 101, 116, 122, 101, 110>>, <<7989, 951, 956, 953, 44, 32, 7973, 963, 969, 44, 32, 7975, 954, 945, 44, 32, 949, 7991, 954, 945, 44, 32, 949, 7991, 956, 945, 953, 44, 32, 949, 7989, 952, 951, 957>>, <<>> >> >>,   \* ἵημι
    << <<7985, 954, 945, 957, 972, 962>>, << <<97, 117, 115, 114, 101, 105, 99, 104, 101, 110, 100, 59, 32, 103, 101, 101, 105, 103, 110, 101, 116>>, <<7985, 954, 945, 957, 972, 962, 44, 32, 942, 44, 32, 972, 957>>, <<>> >> >>,   \* ἱκανός
    << <<7985, 954, 949, 964, 949, 973, 969>>, << <<97, 110, 102, 108, 101, 104, 101, 110>>, <<7985, 954, 949, 964, 949, 973, 969>>, <<>> >> >>,   \* ἱκετεύω
    << <<7989, 957, 945>>, << <<100, 97, 109, 105, 116, 44, 32, 117, 109, 32, 122, 117, 59, 32, 119, 111>>, <<7989, 957, 945>>, <<>> >> >>,   \* ἵνα
    << <<7989, 960, 960, 959, 962>>, << <<80, 102, 101, 114, 100>>, <<7989, 960, 960, 959, 962, 44, 32, 959, 965, 44, 32, 8001>>, <<>> >> >>,   \* ἵππος
    << <<7988, 963, 959, 962>>, << <<103, 108, 101, 105, 99, 104, 59, 32, 103, 101, 114, 101, 99, 104, 116>>, <<7988, 963, 959, 962, 44, 32, 951, 44, 32, 959, 957>>, <<>> >> >>,   \* ἴσος
    << <<7989, 963, 964, 951, 956, 953>>, << <<115, 116, 101, 108, 108, 101, 110, 44, 32, 104, 105, 110, 115, 116, 101, 108, 108, 101, 110>>, <<7989, 963, 964, 951, 956, 953, 44, 32, 963, 964, 942, 963, 969, 44, 32, 7956, 963, 964, 951, 963, 945, 47, 7956, 963, 964, 951, 957, 44, 32, 7956, 963, 964, 951, 954, 945>>, <<>> >> >>,   \* ἵστημι
    << <<7984, 963, 964, 959, 961, 943, 945>>, << <<70, 111, 114, 115, 99, 104, 117, 110, 103, 44, 32, 71, 101, 115, 99, 104, 105, 99, 104, 116, 101>>, <<7984, 963, 964, 959, 961, 943, 945, 44, 32, 945, 962, 44, 32, 7969>>, <<>> >> >>,   \* ἰστορία
    << <<7984, 963, 967, 965, 961, 972, 962>>, << <<115, 116, 97, 114, 107, 44, 32, 107, 114, 97, 102, 116, 118, 111, 108, 108>>, <<7984, 963, 967, 965, 961, 972, 962, 44, 32, 940, 44, 32, 972, 957>>, <<>> >> >>,   \* ἰσχυρός
    << <<7988, 963, 969, 962>>, << <<118, 105, 101, 108, 108, 101, 105, 99, 104, 116>>, <<7988, 963, 969, 962>>, <<>> >> >>,   \* ἴσως
    << <<954, 945, 952, 949, 973, 948, 969>>, << <<115, 99, 104, 108, 97, 102, 101, 110>>, <<954, 945, 952, 949, 973, 948, 969>>, <<>> >> >>,   \* καθεύδω
    << <<954, 940, 952, 951, 956, 945, 953>>, << <<115, 105, 116, 122, 101, 110>>, <<954, 940, 952, 951, 956, 945, 953>>, <<>> >> >>,   \* κάθημαι
    << <<954, 945, 943>>, << <<117, 110, 100, 59, 32, 97, 117, 99, 104, 44, 32, 115, 111, 103, 97, 114>>, <<954, 945, 943>>, <<954, 945, 943, 46, 46, 46, 954, 945, 943, 32, 45, 32, 115, 111, 119, 111, 104, 108, 46, 46, 46, 97, 108, 115, 32, 97, 117, 99, 104, 44, 32, 954, 945, 8054, 32, 948, 8052, 32, 954, 945, 943, 32, 45, 32, 117, 110, 100, 32, 103, 97, 110, 122, 32, 98, 101, 115, 111, 110, 100, 101, 114, 115>> >> >>,   \* καί
    << <<954, 945, 943, 960, 949, 961>>, << <<111, 98, 119, 111, 104, 108>>, <<954, 945, 943, 960, 949, 961>>, <<>> >> >>,   \* καίπερ
    << <<954, 945, 953, 961, 972, 962>>, << <<114, 101, 99, 104, 116, 101, 32, 90, 101, 105, 116, 44, 32, 71, 101, 108, 101, 103, 101, 110, 104, 101, 105, 116>>, <<954, 945, 953, 961, 972, 962, 44, 32, 959, 8166, 44, 32, 8001>>, <<954, 945, 964, 8048, 32, 954, 945, 953, 961, 972, 957, 32, 45, 32, 122, 117, 114, 32, 114, 101, 99, 104, 116, 101, 110, 32, 90, 101, 105, 116>> >> >>,   \* καιρός
    << <<954, 945, 943, 964, 959, 953>>, << <<117, 110, 100, 32, 100, 111, 99, 104>>, <<954, 945, 943, 964, 959, 953>>, <<>> >> >>,   \* καίτοι
    << <<954, 945, 943, 969>>, << <<97, 110, 122, 252, 110, 100, 101, 110, 44, 32, 118, 101, 114, 98, 114, 101, 110, 110, 101, 110>>, <<954, 945, 943, 969>>, <<>> >> >>,   \* καίω
    << <<954, 945, 954, 972, 962>>, << <<115, 99, 104, 108, 101, 99, 104, 116, 44, 32, 98, 246, 115, 101>>, <<954, 945, 954, 972, 962, 44, 32, 942, 44, 32, 972, 957>>, <<954, 945, 954, 8182, 962, 32, 955, 941, 947, 969, 32, 45, 32, 115, 99, 104, 108, 101, 99, 104, 116, 32, 114, 101, 100, 101, 110>> >> >>,   \* κακός
    << <<954, 945, 955, 941, 969>>, << <<114, 117, 102, 101, 110, 59, 32, 110, 101, 110, 110, 101, 110>>, <<954, 945, 955, 941, 969, 44, 32, 954, 945, 955, 8182, 44, 32, 7952, 954, 940, 955, 949, 963, 945, 44, 32, 954, 941, 954, 955, 951, 954, 945, 44, 32, 954, 941, 954, 955, 951, 956, 945, 953, 44, 32, 7952, 954, 955, 942, 952, 951, 957>>, <<8001, 32, 954, 945, 955, 959, 973, 956, 949, 957, 959, 962, 32, 45, 32, 100, 101, 114, 32, 115, 111, 103, 101, 110, 97, 110, 110, 116, 101>> >> >>,   \* καλέω
    << <<954, 945, 955, 972, 962>>, << <<115, 99, 104, 246, 110, 44, 32, 103, 117, 116>>, <<954, 945, 955, 972, 962, 44, 32, 942, 44, 32, 972, 957>>, <<>> >> >>,   \* καλός
    << <<954, 945, 961, 948, 943, 945>>, << <<72, 101, 114, 122>>, <<954, 945, 961, 948, 943, 945, 44, 32, 945, 962, 44, 32, 7969>>, <<>> >> >>,   \* καρδία
    << <<954, 945, 964, 940>>, << <<118, 111, 110, 46, 46, 46, 104, 101, 114, 97, 98, 32, 40, 43, 71, 101, 110, 46, 41, 59, 32, 103, 101, 109, 228, 223, 32, 40, 43, 65, 107, 107, 46, 41>>, <<954, 945, 964, 940>>, <<954, 945, 964, 8048, 32, 966, 973, 963, 953, 957, 32, 45, 32, 103, 101, 109, 228, 223, 32, 100, 101, 114, 32, 78, 97, 116, 117, 114>> >> >>,   \* κατά
    << <<954, 945, 964, 945, 957, 959, 941, 969>>, << <<119, 97, 104, 114, 110, 101, 104, 109, 101, 110, 44, 32, 118, 101, 114, 115, 116, 101, 104, 101, 110>>, <<954, 945, 964, 945, 957, 959, 941, 969>>, <<>> >> >>,   \* κατανοέω
    << <<954, 945, 964, 945, 963, 954, 949, 965, 940, 950, 969>>, << <<101, 105, 110, 114, 105, 99, 104, 116, 101, 110>>, <<954, 945, 964, 945, 963, 954, 949, 965, 940, 950, 969>>, <<>> >> >>,   \* κατασκευάζω
    << <<954, 945, 964, 945, 966, 961, 959, 957, 941, 969>>, << <<118, 101, 114, 97, 99, 104, 116, 101, 110>>, <<954, 945, 964, 945, 966, 961, 959, 957, 941, 969>>, <<>> >> >>,   \* καταφρονέω
    << <<954, 945, 964, 941, 967, 969>>, << <<110, 105, 101, 100, 101, 114, 104, 97, 108, 116, 101, 110, 44, 32, 102, 101, 115, 116, 104, 97, 108, 116, 101, 110>>, <<954, 945, 964, 941, 967, 969>>, <<>> >> >>,   \* κατέχω
    << <<954, 945, 964, 951, 947, 959, 961, 941, 969>>, << <<97, 110, 107, 108, 97, 103, 101, 110>>, <<954, 945, 964, 951, 947, 959, 961, 941, 969>>, <<>> >> >>,   \* κατηγορέω
    << <<954, 949, 8150, 956, 945, 953>>, << <<108, 105, 101, 103, 101, 110>>, <<954, 949, 8150, 956, 945, 953, 44, 32, 954, 949, 943, 963, 959, 956, 945, 953>>, <<>> >> >>,   \* κεῖμαι
    << <<954, 949, 955, 949, 973, 969>>, << <<98, 101, 102, 101, 104, 108, 101, 110, 44, 32, 97, 117, 102, 102, 111, 114, 100, 101, 114, 110>>, <<954, 949, 955, 949, 973, 969, 44, 32, 954, 949, 955, 949, 973, 963, 969, 44, 32, 7952, 954, 941, 955, 949, 965, 963, 945>>, <<>> >> >>,   \* κελεύω
    << <<954, 949, 961, 948, 945, 943, 957, 969>>, << <<103, 101, 119, 105, 110, 110, 101, 110>>, <<954, 949, 961, 948, 945, 943, 957, 969>>, <<>> >> >>,   \* κερδαίνω
    << <<954, 941, 961, 948, 959, 962>>, << <<71, 101, 119, 105, 110, 110, 44, 32, 86, 111, 114, 116, 101, 105, 108>>, <<954, 941, 961, 948, 959, 962, 44, 32, 959, 965, 962, 44, 32, 964, 972>>, <<>> >> >>,   \* κέρδος
    << <<954, 949, 966, 945, 955, 942>>, << <<75, 111, 112, 102>>, <<954, 949, 966, 945, 955, 942, 44, 32, 8134, 962, 44, 32, 7969>>, <<>> >> >>,   \* κεφαλή
    << <<954, 953, 957, 948, 965, 957, 949, 973, 969>>, << <<105, 110, 32, 71, 101, 102, 97, 104, 114, 32, 115, 101, 105, 110, 59, 32, 115, 99, 104, 101, 105, 110, 101, 110>>, <<954, 953, 957, 948, 965, 957, 949, 973, 969>>, <<>> >> >>,   \* κινδυνεύω
    << <<954, 943, 957, 948, 965, 957, 959, 962>>, << <<71, 101, 102, 97, 104, 114>>, <<954, 943, 957, 948, 965, 957, 959, 962, 44, 32, 959, 965, 44, 32, 8001>>, <<>> >> >>,   \* κίνδυνος
    << <<954, 953, 957, 941, 969>>, << <<98, 101, 119, 101, 103, 101, 110>>, <<954, 953, 957, 941, 969>>, <<>> >> >>,   \* κινέω
    << <<954, 955, 941, 960, 964, 969>>, << <<115, 116, 101, 104, 108, 101, 110>>, <<954, 955, 941, 960, 964, 969>>, <<>> >> >>,   \* κλέπτω
    << <<954, 959, 953, 957, 972, 962>>, << <<103, 101, 109, 101, 105, 110, 115, 97, 109>>, <<954, 959, 953, 957, 972, 962, 44, 32, 942, 44, 32, 972, 957>>, <<954, 959, 953, 957, 8135, 32, 45, 32, 103, 101, 109, 101, 105, 110, 115, 97, 109>> >> >>,   \* κοινός
    << <<954, 959, 955, 940, 950, 969>>, << <<98, 101, 115, 116, 114, 97, 102, 101, 110>>, <<954, 959, 955, 940, 950, 969>>, <<>> >> >>,   \* κολάζω
    << <<954, 959, 956, 943, 950, 969>>, << <<98, 114, 105, 110, 103, 101, 110, 44, 32, 116, 114, 97, 110, 115, 112, 111, 114, 116, 105, 101, 114, 101, 110>>, <<954, 959, 956, 943, 950, 969>>, <<>> >> >>,   \* κομίζω
    << <<954, 972, 961, 951>>, << <<77, 228, 100, 99, 104, 101, 110, 44, 32, 84, 111, 99, 104, 116, 101, 114>>, <<954, 972, 961, 951, 44, 32, 951, 962, 44, 32, 7969>>, <<>> >> >>,   \* κόρη
    << <<954, 959, 963, 956, 941, 969>>, << <<111, 114, 100, 110, 101, 110, 44, 32, 115, 99, 104, 109, 252, 99, 107, 101, 110>>, <<954, 959, 963, 956, 941, 969>>, <<>> >> >>,   \* κοσμέω
    << <<954, 972, 963, 956, 959, 962>>, << <<79, 114, 100, 110, 117, 110, 103, 59, 32, 83, 99, 104, 109, 117, 99, 107, 59, 32, 87, 101, 108, 116>>, <<954, 972, 963, 956, 959, 962, 44, 32, 959, 965, 44, 32, 8001>>, <<>> >> >>,   \* κόσμος
    << <<954, 961, 945, 964, 941, 969>>, << <<115, 116, 228, 114, 107, 101, 114, 32, 115, 101, 105, 110, 59, 32, 98, 101, 115, 105, 101, 103, 101, 110>>, <<954, 961, 945, 964, 941, 969, 44, 32, 954, 961, 945, 964, 942, 963, 969, 44, 32, 7952, 954, 961, 940, 964, 951, 963, 945>>, <<>> >> >>,   \* κρατέω
    << <<954, 961, 940, 964, 959, 962>>, << <<83, 116, 228, 114, 107, 101, 44, 32, 77, 97, 99, 104, 116>>, <<954, 961, 940, 964, 959, 962, 44, 32, 959, 965, 962, 44, 32, 964, 972>>, <<>> >> >>,   \* κράτος
    << <<954, 961, 949, 943, 964, 964, 969, 957>>, << <<115, 116, 228, 114, 107, 101, 114, 44, 32, 98, 101, 115, 115, 101, 114>>, <<954, 961, 949, 943, 964, 964, 969, 957, 44, 32, 954, 961, 949, 8150, 964, 964, 959, 957>>, <<75, 111, 109, 112, 46, 32, 122, 117, 32, 7936, 947, 945, 952, 972, 962>> >> >>,   \* κρείττων
    << <<954, 961, 943, 957, 969>>, << <<117, 110, 116, 101, 114, 115, 99, 104, 101, 105, 100, 101, 110, 59, 32, 117, 114, 116, 101, 105, 108, 101, 110>>, <<954, 961, 943, 957, 969, 44, 32, 954, 961, 953, 957, 8182, 44, 32, 7956, 954, 961, 953, 957, 945, 44, 32, 954, 941, 954, 961, 953, 954, 945>>, <<>> >> >>,   \* κρίνω
    << <<954, 961, 943, 963, 953, 962>>, << <<69, 110, 116, 115, 99, 104, 101, 105, 100, 117, 110, 103, 44, 32, 85, 114, 116, 101, 105, 108>>, <<954, 961, 943, 963, 953, 962, 44, 32, 949, 969, 962, 44, 32, 7969>>, <<>> >> >>,   \* κρίσις
    << <<954, 961, 973, 960, 964, 969>>, << <<118, 101, 114, 98, 101, 114, 103, 101, 110>>, <<954, 961, 973, 960, 964, 969>>, <<>> >> >>,   \* κρύπτω
    << <<954, 964, 940, 959, 956, 945, 953>>, << <<101, 114, 119, 101, 114, 98, 101, 110>>, <<954, 964, 940, 959, 956, 945, 953, 44, 32, 954, 964, 942, 963, 959, 956, 945, 953, 44, 32, 7952, 954, 964, 951, 963, 940, 956, 951, 957, 44, 32, 954, 941, 954, 964, 951, 956, 945, 953>>, <<954, 941, 954, 964, 951, 956, 945, 953, 32, 45, 32, 98, 101, 115, 105, 116, 122, 101, 110>> >> >>,   \* κτάομαι
    << <<954, 964, 8134, 956, 945>>, << <<66, 101, 115, 105, 116, 122>>, <<954, 964, 8134, 956, 945, 44, 32, 945, 964, 959, 962, 44, 32, 964, 972>>, <<>> >> >>,   \* κτῆμα
    << <<954, 973, 954, 955, 959, 962>>, << <<75, 114, 101, 105, 115>>, <<954, 973, 954, 955, 959, 962, 44, 32, 959, 965, 44, 32, 8001>>, <<>> >> >>,   \* κύκλος
    << <<954, 973, 961, 953, 959, 962>>, << <<72, 101, 114, 114>>, <<954, 973, 961, 953, 959, 962, 44, 32, 959, 965, 44, 32, 8001>>, <<>> >> >>,   \* κύριος
    << <<954, 969, 955, 973, 969>>, << <<104, 105, 110, 100, 101, 114, 110, 44, 32, 97, 98, 104, 97, 108, 116, 101, 110>>, <<954, 969, 955, 973, 969, 44, 32, 954, 969, 955, 973, 963, 969, 44, 32, 7952, 954, 974, 955, 965, 963, 945>>, <<>> >> >>,   \* κωλύω
    << <<955, 945, 956, 946, 940, 957, 969>>, << <<110, 101, 104, 109, 101, 110, 44, 32, 101, 114, 103, 114, 101, 105, 102, 101, 110, 59, 32, 101, 114, 104, 97, 108, 116, 101, 110>>, <<955, 945, 956, 946, 940, 957, 969, 44, 32, 955, 942, 968, 959, 956, 945, 953, 44, 32, 7956, 955, 945, 946, 959, 957, 44, 32, 949, 7988, 955, 951, 966, 945, 44, 32, 949, 7988, 955, 951, 956, 956, 945, 953, 44, 32, 7952, 955, 942, 966, 952, 951, 957>>, <<>> >> >>,   \* λαμβάνω
    << <<955, 945, 957, 952, 940, 957, 969>>, << <<118, 101, 114, 98, 111, 114, 103, 101, 110, 32, 115, 101, 105, 110>>, <<955, 945, 957, 952, 940, 957, 969, 44, 32, 955, 942, 963, 969, 44, 32, 7956, 955, 945, 952, 959, 957, 44, 32, 955, 941, 955, 951, 952, 945>>, <<955, 945, 957, 952, 940, 957, 969, 32, 960, 959, 953, 8182, 957, 32, 964, 953, 32, 45, 32, 101, 116, 119, 46, 32, 117, 110, 98, 101, 109, 101, 114, 107, 116, 32, 116, 117, 110>> >> >>,   \* λανθάνω
    << <<955, 941, 947, 969>>, << <<115, 97, 103, 101, 110, 44, 32, 115, 112, 114, 101, 99, 104, 101, 110, 59, 32, 110, 101, 110, 110, 101, 110>>, <<955, 941, 947, 969, 44, 32, 7952, 961, 8182, 44, 32, 949, 7990, 960, 959, 957, 44, 32, 949, 7988, 961, 951, 954, 945, 44, 32, 949, 7988, 961, 951, 956, 945, 953, 44, 32, 7952, 955, 941, 967, 952, 951, 957, 47, 7952, 961, 961, 942, 952, 951, 957>>, <<8033, 962, 32, 7956, 960, 959, 962, 32, 949, 7984, 960, 949, 8150, 957, 32, 45, 32, 115, 111, 122, 117, 115, 97, 103, 101, 110>> >> >>,   \* λέγω
    << <<955, 949, 943, 960, 969>>, << <<108, 97, 115, 115, 101, 110, 59, 32, 118, 101, 114, 108, 97, 115, 115, 101, 110>>, <<955, 949, 943, 960, 969, 44, 32, 955, 949, 943, 968, 969, 44, 32, 7956, 955, 953, 960, 959, 957, 44, 32, 955, 941, 955, 959, 953, 960, 945, 44, 32, 955, 941, 955, 949, 953, 956, 956, 945, 953, 44, 32, 7952, 955, 949, 943, 966, 952, 951, 957>>, <<>> >> >>,   \* λείπω
    << <<955, 943, 952, 959, 962>>, << <<83, 116, 101, 105, 110>>, <<955, 943, 952, 959, 962, 44, 32, 959, 965, 44, 32, 8001>>, <<>> >> >>,   \* λίθος
    << <<955, 959, 947, 943, 950, 959, 956, 945, 953>>, << <<114, 101, 99, 104, 110, 101, 110, 44, 32, 252, 98, 101, 114, 108, 101, 103, 101, 110>>, <<955, 959, 947, 943, 950, 959, 956, 945, 953, 44, 32, 955, 959, 947, 953, 959, 8166, 956, 945, 953, 44, 32, 7952, 955, 959, 947, 953, 963, 940, 956, 951, 957, 44, 32, 955, 949, 955, 972, 947, 953, 963, 956, 945, 953>>, <<>> >> >>,   \* λογίζομαι
    << <<955, 972, 947, 959, 962>>, << <<87, 111, 114, 116, 44, 32, 82, 101, 100, 101, 59, 32, 71, 101, 100, 97, 110, 107, 101, 59, 32, 69, 114, 122, 228, 104, 108, 117, 110, 103>>, <<955, 972, 947, 959, 962, 44, 32, 959, 965, 44, 32, 8001>>, <<955, 972, 947, 959, 957, 32, 948, 943, 948, 969, 956, 953, 32, 45, 32, 82, 101, 99, 104, 101, 110, 115, 99, 104, 97, 102, 116, 32, 97, 98, 108, 101, 103, 101, 110>> >> >>,   \* λόγος
    << <<955, 959, 953, 960, 972, 962>>, << <<252, 98, 114, 105, 103>>, <<955, 959, 953, 960, 972, 962, 44, 32, 942, 44, 32, 972, 957>>, <<964, 8056, 32, 955, 959, 953, 960, 972, 957, 32, 45, 32, 107, 252, 110, 102, 116, 105, 103>> >> >>,   \* λοιπός
    << <<955, 965, 960, 941, 969>>, << <<98, 101, 116, 114, 252, 98, 101, 110>>, <<955, 965, 960, 941, 969>>, <<>> >> >>,   \* λυπέω
    << <<955, 973, 960, 951>>, << <<83, 99, 104, 109, 101, 114, 122, 44, 32, 76, 101, 105, 100>>, <<955, 973, 960, 951, 44, 32, 951, 962, 44, 32, 7969>>, <<>> >> >>,   \* λύπη
    << <<955, 973, 969>>, << <<108, 246, 115, 101, 110, 44, 32, 97, 117, 102, 108, 246, 115, 101, 110>>, <<955, 973, 969, 44, 32, 955, 973, 963, 969, 44, 32, 7956, 955, 965, 963, 945, 44, 32, 955, 941, 955, 965, 954, 945, 44, 32, 955, 941, 955, 965, 956, 945, 953, 44, 32, 7952, 955, 973, 952, 951, 957>>, <<>> >> >>,   \* λύω
    << <<956, 940, 952, 951, 956, 945>>, << <<76, 101, 114, 110, 103, 101, 103, 101, 110, 115, 116, 97, 110, 100, 44, 32, 75, 101, 110, 110, 116, 110, 105, 115>>, <<956, 940, 952, 951, 956, 945, 44, 32, 945, 964, 959, 962, 44, 32, 964, 972>>, <<>> >> >>,   \* μάθημα
    << <<956, 945, 952, 951, 964, 942, 962>>, << <<83, 99, 104, 252, 108, 101, 114>>, <<956, 945, 952, 951, 964, 942, 962, 44, 32, 959, 8166, 44, 32, 8001>>, <<>> >> >>,   \* μαθητής
    << <<956, 945, 943, 957, 959, 956, 945, 953>>, << <<114, 97, 115, 101, 110, 44, 32, 119, 252, 116, 101, 110>>, <<956, 945, 943, 957, 959, 956, 945, 953>>, <<>> >> >>,   \* μαίνομαι
    << <<956, 945, 954, 940, 961, 953, 959, 962>>, << <<103, 108, 252, 99, 107, 115, 101, 108, 105, 103, 44, 32, 115, 101, 108, 105, 103>>, <<956, 945, 954, 940, 961, 953, 959, 962, 44, 32, 945, 44, 32, 959, 957>>, <<>> >> >>,   \* μακάριος
    << <<956, 945, 954, 961, 972, 962>>, << <<108, 97, 110, 103, 44, 32, 103, 114, 111, 223>>, <<956, 945, 954, 961, 972, 962, 44, 32, 940, 44, 32, 972, 957>>, <<>> >> >>,   \* μακρός
    << <<956, 940, 955, 945>>, << <<115, 101, 104, 114>>, <<956, 940, 955, 945, 44, 32, 956, 8118, 955, 955, 959, 957, 44, 32, 956, 940, 955, 953, 963, 964, 945>>, <<>> >> >>,   \* μάλα
    << <<956, 940, 955, 953, 963, 964, 945>>, << <<97, 109, 32, 109, 101, 105, 115, 116, 101, 110, 44, 32, 98, 101, 115, 111, 110, 100, 101, 114, 115>>, <<956, 940, 955, 953, 963, 964, 945>>, <<>> >> >>,   \* μάλιστα
    << <<956, 8118, 955, 955, 959, 957>>, << <<109, 101, 104, 114, 44, 32, 108, 105, 101, 98, 101, 114>>, <<956, 8118, 955, 955, 959, 957>>, <<956, 8118, 955, 955, 959, 957, 32, 948, 941, 32, 45, 32, 118, 105, 101, 108, 109, 101, 104, 114>> >> >>,   \* μᾶλλον
    << <<956, 945, 957, 952, 940, 957, 969>>, << <<108, 101, 114, 110, 101, 110, 59, 32, 118, 101, 114, 115, 116, 101, 104, 101, 110>>, <<956, 945, 957, 952, 940, 957, 969, 44, 32, 956, 945, 952, 942, 963, 959, 956, 945, 953, 44, 32, 7956, 956, 945, 952, 959, 957, 44, 32, 956, 949, 956, 940, 952, 951, 954, 945>>, <<>> >> >>,   \* μανθάνω
    << <<956, 940, 957, 964, 953, 962>>, << <<83, 101, 104, 101, 114, 44, 32, 87, 97, 104, 114, 115, 97, 103, 101, 114>>, <<956, 940, 957, 964, 953, 962, 44, 32, 949, 969, 962, 44, 32, 8001>>, <<>> >> >>,   \* μάντις
    << <<956, 945, 961, 964, 965, 961, 941, 969>>, << <<98, 101, 122, 101, 117, 103, 101, 110>>, <<956, 945, 961, 964, 965, 961, 941, 969>>, <<>> >> >>,   \* μαρτυρέω
    << <<956, 940, 961, 964, 965, 962>>, << <<90, 101, 117, 103, 101>>, <<956, 940, 961, 964, 965, 962, 44, 32, 965, 961, 959, 962, 44, 32, 8001, 47, 7969>>, <<>> >> >>,   \* μάρτυς
    << <<956, 940, 967, 951>>, << <<75, 97, 109, 112, 102>>, <<956, 940, 967, 951, 44, 32, 951, 962, 44, 32, 7969>>, <<>> >> >>,   \* μάχη
    << <<956, 940, 967, 959, 956, 945, 953>>, << <<107, 228, 109, 112, 102, 101, 110>>, <<956, 940, 967, 959, 956, 945, 953, 44, 32, 956, 945, 967, 959, 8166, 956, 945, 953, 44, 32, 7952, 956, 945, 967, 949, 963, 940, 956, 951, 957, 44, 32, 956, 949, 956, 940, 967, 951, 956, 945, 953>>, <<>> >> >>,   \* μάχομαι
    << <<956, 941, 947, 945, 962>>, << <<103, 114, 111, 223, 44, 32, 98, 101, 100, 101, 117, 116, 101, 110, 100>>, <<956, 941, 947, 945, 962, 44, 32, 956, 949, 947, 940, 955, 951, 44, 32, 956, 941, 947, 945>>, <<>> >> >>,   \* μέγας
    << <<956, 941, 947, 949, 952, 959, 962>>, << <<71, 114, 246, 223, 101>>, <<956, 941, 947, 949, 952, 959, 962, 44, 32, 959, 965, 962, 44, 32, 964, 972>>, <<>> >> >>,   \* μέγεθος
    << <<956, 949, 943, 962>>, << <<77, 111, 110, 97, 116>>, <<956, 949, 943, 962, 44, 32, 956, 951, 957, 972, 962, 44, 32, 8001>>, <<>> >> >>,   \* μείς
    << <<956, 941, 955, 949, 953>>, << <<101, 115, 32, 108, 105, 101, 103, 116, 32, 97, 109, 32, 72, 101, 114, 122, 101, 110>>, <<956, 941, 955, 949, 953>>, <<956, 941, 955, 949, 953, 32, 956, 959, 943, 32, 964, 953, 957, 959, 962, 32, 45, 32, 105, 99, 104, 32, 107, 252, 109, 109, 101, 114, 101, 32, 109, 105, 99, 104, 32, 117, 109, 32, 101, 116, 119, 46>> >> >>,   \* μέλει
    << <<956, 941, 955, 955, 969>>, << <<105, 109, 32, 66, 101, 103, 114, 105, 102, 102, 32, 115, 101, 105, 110, 59, 32, 115, 111, 108, 108, 101, 110, 59, 32, 122, 246, 103, 101, 114, 110>>, <<956, 941, 955, 955, 969, 44, 32, 956, 949, 955, 955, 942, 963, 969, 44, 32, 7952, 956, 941, 955, 955, 951, 963, 945>>, <<964, 8048, 32, 956, 941, 955, 955, 959, 957, 964, 945, 32, 45, 32, 100, 105, 101, 32, 90, 117, 107, 117, 110, 102, 116>> >> >>,   \* μέλλω
    << <<956, 941, 955, 959, 962>>, << <<71, 108, 105, 101, 100, 59, 32, 76, 105, 101, 100>>, <<956, 941, 955, 959, 962, 44, 32, 959, 965, 962, 44, 32, 964, 972>>, <<>> >> >>,   \* μέλος
    << <<956, 941, 957>>, << <<122, 119, 97, 114>>, <<956, 941, 957>>, <<956, 941, 957, 46, 46, 46, 948, 941, 32, 45, 32, 122, 119, 97, 114, 46, 46, 46, 97, 98, 101, 114>> >> >>,   \* μέν
    << <<956, 941, 957, 964, 959, 953>>, << <<102, 114, 101, 105, 108, 105, 99, 104, 44, 32, 97, 108, 108, 101, 114, 100, 105, 110, 103, 115>>, <<956, 941, 957, 964, 959, 953>>, <<>> >> >>,   \* μέντοι
    << <<956, 941, 957, 969>>, << <<98, 108, 101, 105, 98, 101, 110, 44, 32, 119, 97, 114, 116, 101, 110>>, <<956, 941, 957, 969, 44, 32, 956, 949, 957, 8182, 44, 32, 7956, 956, 949, 953, 957, 945, 44, 32, 956, 949, 956, 941, 957, 951, 954, 945>>, <<>> >> >>,   \* μένω
    << <<956, 941, 961, 959, 962>>, << <<84, 101, 105, 108>>, <<956, 941, 961, 959, 962, 44, 32, 959, 965, 962, 44, 32, 964, 972>>, <<964, 8056, 32, 7952, 956, 8056, 957, 32, 956, 941, 961, 959, 962, 32, 45, 32, 119, 97, 115, 32, 109, 105, 99, 104, 32, 98, 101, 116, 114, 105, 102, 102, 116>> >> >>,   \* μέρος
    << <<956, 941, 963, 959, 962>>, << <<109, 105, 116, 116, 108, 101, 114, 101, 114, 44, 32, 109, 105, 116, 116, 101, 110>>, <<956, 941, 963, 959, 962, 44, 32, 951, 44, 32, 959, 957>>, <<>> >> >>,   \* μέσος
    << <<956, 949, 964, 940>>, << <<109, 105, 116, 32, 40, 43, 71, 101, 110, 46, 41, 59, 32, 110, 97, 99, 104, 32, 40, 43, 65, 107, 107, 46, 41>>, <<956, 949, 964, 940>>, <<>> >> >>,   \* μετά
    << <<956, 949, 964, 941, 967, 969>>, << <<65, 110, 116, 101, 105, 108, 32, 104, 97, 98, 101, 110>>, <<956, 949, 964, 941, 967, 969>>, <<>> >> >>,   \* μετέχω
    << <<956, 941, 964, 961, 959, 957>>, << <<77, 97, 223>>, <<956, 941, 964, 961, 959, 957, 44, 32, 959, 965, 44, 32, 964, 972>>, <<>> >> >>,   \* μέτρον
    << <<956, 942>>, << <<110, 105, 99, 104, 116>>, <<956, 942>>, <<>> >> >>,   \* μή
    << <<956, 951, 948, 941>>, << <<117, 110, 100, 32, 110, 105, 99, 104, 116, 44, 32, 97, 117, 99, 104, 32, 110, 105, 99, 104, 116>>, <<956, 951, 948, 941>>, <<>> >> >>,   \* μηδέ
    << <<956, 951, 948, 949, 943, 962>>, << <<110, 105, 101, 109, 97, 110, 100, 44, 32, 110, 105, 99, 104, 116, 115>>, <<956, 951, 948, 949, 943, 962, 44, 32, 956, 951, 948, 949, 956, 943, 945, 44, 32, 956, 951, 948, 941, 957>>, <<>> >> >>,   \* μηδείς
    << <<956, 942, 957>>, << <<119, 97, 104, 114, 108, 105, 99, 104>>, <<956, 942, 957>>, <<>> >> >>,   \* μήν
    << <<956, 942, 964, 951, 961>>, << <<77, 117, 116, 116, 101, 114>>, <<956, 942, 964, 951, 961, 44, 32, 964, 961, 972, 962, 44, 32, 7969>>, <<>> >> >>,   \* μήτηρ
    << <<956, 951, 967, 945, 957, 942>>, << <<75, 117, 110, 115, 116, 103, 114, 105, 102, 102, 44, 32, 77, 105, 116, 116, 101, 108, 44, 32, 77, 97, 115, 99, 104, 105, 110, 101>>, <<956, 951, 967, 945, 957, 942, 44, 32, 8134, 962, 44, 32, 7969>>, <<>> >> >>,   \* μηχανή
    << <<956, 953, 954, 961, 972, 962>>, << <<107, 108, 101, 105, 110>>, <<956, 953, 954, 961, 972, 962, 44, 32, 940, 44, 32, 972, 957>>, <<956, 953, 954, 961, 959, 8166, 32, 948, 949, 8150, 957, 32, 45, 32, 98, 101, 105, 110, 97, 104, 101>> >> >>,   \* μικρός
    << <<956, 953, 956, 941, 959, 956, 945, 953>>, << <<110, 97, 99, 104, 97, 104, 109, 101, 110>>, <<956, 953, 956, 941, 959, 956, 945, 953>>, <<>> >> >>,   \* μιμέομαι
    << <<956, 953, 956, 957, 942, 963, 954, 969>>, << <<101, 114, 105, 110, 110, 101, 114, 110>>, <<956, 953, 956, 957, 942, 963, 954, 969>>, <<>> >> >>,   \* μιμνήσκω
    << <<956, 953, 963, 941, 969>>, << <<104, 97, 115, 115, 101, 110>>, <<956, 953, 963, 941, 969>>, <<>> >> >>,   \* μισέω
    << <<956, 957, 942, 956, 951>>, << <<71, 101, 100, 228, 99, 104, 116, 110, 105, 115, 44, 32, 65, 110, 100, 101, 110, 107, 101, 110>>, <<956, 957, 942, 956, 951, 44, 32, 951, 962, 44, 32, 7969>>, <<>> >> >>,   \* μνήμη
    << <<956, 959, 8150, 961, 945>>, << <<65, 110, 116, 101, 105, 108, 59, 32, 83, 99, 104, 105, 99, 107, 115, 97, 108>>, <<956, 959, 8150, 961, 945, 44, 32, 945, 962, 44, 32, 7969>>, <<>> >> >>,   \* μοῖρα
    << <<956, 972, 957, 959, 962>>, << <<97, 108, 108, 101, 105, 110, 44, 32, 101, 105, 110, 122, 105, 103>>, <<956, 972, 957, 959, 962, 44, 32, 951, 44, 32, 959, 957>>, <<956, 972, 957, 959, 957, 32, 45, 32, 110, 117, 114>> >> >>,   \* μόνος
    << <<956, 8166, 952, 959, 962>>, << <<87, 111, 114, 116, 59, 32, 69, 114, 122, 228, 104, 108, 117, 110, 103>>, <<956, 8166, 952, 959, 962, 44, 32, 959, 965, 44, 32, 8001>>, <<>> >> >>,   \* μῦθος
    << <<956, 973, 961, 953, 959, 953>>, << <<122, 101, 104, 110, 116, 97, 117, 115, 101, 110, 100>>, <<956, 973, 961, 953, 959, 953, 44, 32, 945, 953, 44, 32, 945>>, <<>> >> >>,   \* μύριοι
    << <<957, 945, 943>>, << <<106, 97>>, <<957, 945, 943>>, <<>> >> >>,   \* ναί
    << <<957, 945, 972, 962>>, << <<84, 101, 109, 112, 101, 108>>, <<957, 945, 972, 962, 44, 32, 959, 8166, 44, 32, 8001>>, <<>> >> >>,   \* ναός
    << <<957, 945, 8166, 962>>, << <<83, 99, 104, 105, 102, 102>>, <<957, 945, 8166, 962, 44, 32, 957, 949, 974, 962, 44, 32, 7969>>, <<>> >> >>,   \* ναῦς
    << <<957, 949, 954, 961, 972, 962>>, << <<116, 111, 116, 59, 32, 76, 101, 105, 99, 104, 110, 97, 109>>, <<957, 949, 954, 961, 972, 962, 44, 32, 940, 44, 32, 972, 957>>, <<>> >> >>,   \* νεκρός
    << <<957, 941, 956, 969>>, << <<122, 117, 116, 101, 105, 108, 101, 110, 59, 32, 119, 101, 105, 100, 101, 110>>, <<957, 941, 956, 969>>, <<>> >> >>,   \* νέμω
    << <<957, 941, 959, 962>>, << <<110, 101, 117, 44, 32, 106, 117, 110, 103>>, <<957, 941, 959, 962, 44, 32, 945, 44, 32, 959, 957>>, <<959, 7985, 32, 957, 941, 959, 953, 32, 45, 32, 100, 105, 101, 32, 106, 117, 110, 103, 101, 110, 32, 77, 228, 110, 110, 101, 114>> >> >>,   \* νέος
    << <<957, 8134, 963, 959, 962>>, << <<73, 110, 115, 101, 108>>, <<957, 8134, 963, 959, 962, 44, 32, 959, 965, 44, 32, 7969>>, <<>> >> >>,   \* νῆσος
    << <<957, 953, 954, 940, 969>>, << <<115, 105, 101, 103, 101, 110, 44, 32, 98, 101, 115, 105, 101, 103, 101, 110>>, <<957, 953, 954, 940, 969, 44, 32, 957, 953, 954, 942, 963, 969, 44, 32, 7952, 957, 943, 954, 951, 963, 945, 44, 32, 957, 949, 957, 943, 954, 951, 954, 945>>, <<>> >> >>,   \* νικάω
    << <<957, 943, 954, 951>>, << <<83, 105, 101, 103>>, <<957, 943, 954, 951, 44, 32, 951, 962, 44, 32, 7969>>, <<>> >> >>,   \* νίκη
    << <<957, 959, 941, 969>>, << <<100, 101, 110, 107, 101, 110, 59, 32, 101, 114, 107, 101, 110, 110, 101, 110>>, <<957, 959, 941, 969>>, <<>> >> >>,   \* νοέω
    << <<957, 959, 956, 943, 950, 969>>, << <<103, 108, 97, 117, 98, 101, 110, 44, 32, 109, 101, 105, 110, 101, 110, 59, 32, 97, 110, 101, 114, 107, 101, 110, 110, 101, 110>>, <<957, 959, 956, 943, 950, 969, 44, 32, 957, 959, 956, 953, 8182, 44, 32, 7952, 957, 972, 956, 953, 963, 945, 44, 32, 957, 949, 957, 972, 956, 953, 954, 945>>, <<>> >> >>,   \* νομίζω
    << <<957, 972, 956, 953, 956, 959, 962>>, << <<103, 101, 115, 101, 116, 122, 108, 105, 99, 104>>, <<957, 972, 956, 953, 956, 959, 962, 44, 32, 951, 44, 32, 959, 957>>, <<>> >> >>,   \* νόμιμος
    << <<957, 972, 956, 959, 962>>, << <<71, 101, 115, 101, 116, 122, 59, 32, 83, 105, 116, 116, 101>>, <<957, 972, 956, 959, 962, 44, 32, 959, 965, 44, 32, 8001>>, <<>> >> >>,   \* νόμος
    << <<957, 972, 963, 959, 962>>, << <<75, 114, 97, 110, 107, 104, 101, 105, 116>>, <<957, 972, 963, 959, 962, 44, 32, 959, 965, 44, 32, 7969>>, <<>> >> >>,   \* νόσος
    << <<957, 959, 8166, 962>>, << <<86, 101, 114, 115, 116, 97, 110, 100, 44, 32, 71, 101, 105, 115, 116>>, <<957, 959, 8166, 962, 44, 32, 957, 959, 8166, 44, 32, 8001>>, <<964, 8056, 957, 32, 957, 959, 8166, 957, 32, 960, 961, 959, 963, 941, 967, 949, 953, 957, 32, 45, 32, 97, 99, 104, 116, 101, 110, 32, 97, 117, 102>> >> >>,   \* νοῦς
    << <<957, 8166, 957>>, << <<110, 117, 110>>, <<957, 8166, 957>>, <<>> >> >>,   \* νῦν
    << <<957, 973, 958>>, << <<78, 97, 99, 104, 116>>, <<957, 973, 958, 44, 32, 957, 965, 954, 964, 972, 962, 44, 32, 7969>>, <<957, 965, 954, 964, 972, 962, 32, 45, 32, 110, 97, 99, 104, 116, 115>> >> >>,   \* νύξ
    << <<958, 941, 957, 959, 962>>, << <<70, 114, 101, 109, 100, 101, 114, 59, 32, 71, 97, 115, 116, 59, 32, 83, 246, 108, 100, 110, 101, 114>>, <<958, 941, 957, 959, 962, 44, 32, 959, 965, 44, 32, 8001>>, <<>> >> >>,   \* ξένος
    << <<958, 973, 955, 959, 957>>, << <<72, 111, 108, 122>>, <<958, 973, 955, 959, 957, 44, 32, 959, 965, 44, 32, 964, 972>>, <<>> >> >>,   \* ξύλον
    << <<8001>>, << <<100, 101, 114>>, <<8001, 44, 32, 7969, 44, 32, 964, 972>>, <<8001, 32, 956, 941, 957, 46, 46, 46, 8001, 32, 948, 941, 32, 45, 32, 100, 101, 114, 32, 101, 105, 110, 101, 46, 46, 46, 100, 101, 114, 32, 97, 110, 100, 101, 114, 101>> >> >>,   \* ὁ
    << <<8005, 948, 949>>, << <<100, 105, 101, 115, 101, 114, 32, 104, 105, 101, 114>>, <<8005, 948, 949, 44, 32, 7973, 948, 949, 44, 32, 964, 972, 948, 949>>, <<>> >> >>,   \* ὅδε
    << <<8001, 948, 972, 962>>, << <<87, 101, 103, 44, 32, 82, 101, 105, 115, 101>>, <<8001, 948, 972, 962, 44, 32, 959, 8166, 44, 32, 7969>>, <<>> >> >>,   \* ὁδός
    << <<959, 7990, 948, 945>>, << <<119, 105, 115, 115, 101, 110, 44, 32, 107, 101, 110, 110, 101, 110>>, <<959, 7990, 948, 945, 44, 32, 949, 7988, 963, 959, 956, 945, 953>>, <<>> >> >>,   \* οἶδα
    << <<959, 7984, 954, 949, 8150, 959, 962>>, << <<104, 228, 117, 115, 108, 105, 99, 104, 59, 32, 101, 105, 103, 101, 110, 59, 32, 118, 101, 114, 119, 97, 110, 100, 116>>, <<959, 7984, 954, 949, 8150, 959, 962, 44, 32, 945, 44, 32, 959, 957>>, <<>> >> >>,   \* οἰκεῖος
    << <<959, 7984, 954, 941, 969>>, << <<119, 111, 104, 110, 101, 110, 44, 32, 98, 101, 119, 111, 104, 110, 101, 110>>, <<959, 7984, 954, 941, 969, 44, 32, 959, 7984, 954, 942, 963, 969, 44, 32, 8100, 954, 951, 963, 945>>, <<>> >> >>,   \* οἰκέω
    << <<959, 7984, 954, 943, 945>>, << <<72, 97, 117, 115, 44, 32, 71, 101, 98, 228, 117, 100, 101>>, <<959, 7984, 954, 943, 945, 44, 32, 945, 962, 44, 32, 7969>>, <<>> >> >>,   \* οἰκία
    << <<959, 7990, 954, 959, 962>>, << <<72, 97, 117, 115, 59, 32, 70, 97, 109, 105, 108, 105, 101>>, <<959, 7990, 954, 959, 962, 44, 32, 959, 965, 44, 32, 8001>>, <<>> >> >>,   \* οἶκος
    << <<959, 7990, 957, 959, 962>>, << <<87, 101, 105, 110>>, <<959, 7990, 957, 959, 962, 44, 32, 959, 965, 44, 32, 8001>>, <<>> >> >>,   \* οἶνος
    << <<959, 7988, 959, 956, 945, 953>>, << <<103, 108, 97, 117, 98, 101, 110, 44, 32, 109, 101, 105, 110, 101, 110>>, <<959, 7988, 959, 956, 945, 953, 47, 959, 7990, 956, 945, 953>>, <<>> >> >>,   \* οἴομαι
    << <<959, 7991, 959, 962>>, << <<119, 105, 101, 32, 98, 101, 115, 99, 104, 97, 102, 102, 101, 110>>, <<959, 7991, 959, 962, 44, 32, 959, 943, 945, 44, 32, 959, 7991, 959, 957>>, <<959, 7991, 972, 962, 32, 964, 941, 32, 949, 7984, 956, 953, 32, 45, 32, 105, 109, 115, 116, 97, 110, 100, 101, 32, 115, 101, 105, 110>> >> >>,   \* οἷος
    << <<959, 7988, 967, 959, 956, 945, 953>>, << <<102, 111, 114, 116, 103, 101, 104, 101, 110, 44, 32, 102, 111, 114, 116, 115, 101, 105, 110>>, <<959, 7988, 967, 959, 956, 945, 953>>, <<>> >> >>,   \* οἴχομαι
    << <<8000, 955, 943, 947, 959, 962>>, << <<119, 101, 110, 105, 103, 44, 32, 103, 101, 114, 105, 110, 103>>, <<8000, 955, 943, 947, 959, 962, 44, 32, 951, 44, 32, 959, 957>>, <<8000, 955, 943, 947, 959, 965, 32, 948, 949, 8150, 957, 32, 45, 32, 98, 101, 105, 110, 97, 104, 101>> >> >>,   \* ὀλίγος
    << <<8005, 955, 959, 962>>, << <<103, 97, 110, 122>>, <<8005, 955, 959, 962, 44, 32, 951, 44, 32, 959, 957>>, <<954, 945, 952, 39, 32, 8005, 955, 959, 965, 32, 45, 32, 105, 109, 32, 97, 108, 108, 103, 101, 109, 101, 105, 110, 101, 110>> >> >>,   \* ὅλος
    << <<8005, 956, 959, 953, 959, 962>>, << <<103, 108, 101, 105, 99, 104, 44, 32, 228, 104, 110, 108, 105, 99, 104>>, <<8005, 956, 959, 953, 959, 962, 44, 32, 945, 44, 32, 959, 957>>, <<>> >> >>,   \* ὅμοιος
    << <<8001, 956, 959, 955, 959, 947, 941, 969>>, << <<252, 98, 101, 114, 101, 105, 110, 115, 116, 105, 109, 109, 101, 110, 44, 32, 122, 117, 115, 116, 105, 109, 109, 101, 110>>, <<8001, 956, 959, 955, 959, 947, 941, 969>>, <<>> >> >>,   \* ὁμολογέω
    << <<8005, 956, 969, 962>>, << <<100, 101, 110, 110, 111, 99, 104>>, <<8005, 956, 969, 962>>, <<>> >> >>,   \* ὅμως
    << <<8004, 957, 959, 956, 945>>, << <<78, 97, 109, 101, 59, 32, 82, 117, 102>>, <<8004, 957, 959, 956, 945, 44, 32, 945, 964, 959, 962, 44, 32, 964, 972>>, <<>> >> >>,   \* ὄνομα
    << <<8000, 957, 959, 956, 940, 950, 969>>, << <<110, 101, 110, 110, 101, 110, 44, 32, 98, 101, 110, 101, 110, 110, 101, 110>>, <<8000, 957, 959, 956, 940, 950, 969>>, <<>> >> >>,   \* ὀνομάζω
    << <<8001, 960, 955, 943, 964, 951, 962>>, << <<83, 99, 104, 119, 101, 114, 98, 101, 119, 97, 102, 102, 110, 101, 116, 101, 114>>, <<8001, 960, 955, 943, 964, 951, 962, 44, 32, 959, 965, 44, 32, 8001>>, <<>> >> >>,   \* ὁπλίτης
    << <<8005, 960, 955, 959, 957>>, << <<87, 97, 102, 102, 101>>, <<8005, 960, 955, 959, 957, 44, 32, 959, 965, 44, 32, 964, 972>>, <<>> >> >>,   \* ὅπλον
    << <<8001, 960, 972, 964, 949>>, << <<97, 108, 115, 44, 32, 119, 101, 110, 110>>, <<8001, 960, 972, 964, 949>>, <<>> >> >>,   \* ὁπότε
    << <<8005, 960, 959, 965>>, << <<119, 111>>, <<8005, 960, 959, 965>>, <<>> >> >>,   \* ὅπου
    << <<8001, 961, 940, 969>>, << <<115, 101, 104, 101, 110>>, <<8001, 961, 940, 969, 44, 32, 8004, 968, 959, 956, 945, 953, 44, 32, 949, 7990, 948, 959, 957, 44, 32, 7953, 974, 961, 945, 954, 945, 44, 32, 8038, 956, 956, 945, 953, 44, 32, 8036, 966, 952, 951, 957>>, <<>> >> >>,   \* ὁράω
    << <<8004, 961, 947, 945, 957, 959, 957>>, << <<87, 101, 114, 107, 122, 101, 117, 103, 44, 32, 73, 110, 115, 116, 114, 117, 109, 101, 110, 116>>, <<8004, 961, 947, 945, 957, 959, 957, 44, 32, 959, 965, 44, 32, 964, 972>>, <<>> >> >>,   \* ὄργανον
    << <<8000, 961, 947, 942>>, << <<90, 111, 114, 110>>, <<8000, 961, 947, 942, 44, 32, 8134, 962, 44, 32, 7969>>, <<>> >> >>,   \* ὀργή
    << <<8000, 961, 952, 972, 962>>, << <<103, 101, 114, 97, 100, 101, 44, 32, 97, 117, 102, 114, 101, 99, 104, 116, 59, 32, 114, 105, 99, 104, 116, 105, 103>>, <<8000, 961, 952, 972, 962, 44, 32, 942, 44, 32, 972, 957>>, <<>> >> >>,   \* ὀρθός
    << <<8001, 961, 943, 950, 969>>, << <<98, 101, 103, 114, 101, 110, 122, 101, 110, 44, 32, 100, 101, 102, 105, 110, 105, 101, 114, 101, 110>>, <<8001, 961, 943, 950, 969>>, <<>> >> >>,   \* ὁρίζω
    << <<8001, 961, 956, 940, 969>>, << <<115, 105, 99, 104, 32, 105, 110, 32, 66, 101, 119, 101, 103, 117, 110, 103, 32, 115, 101, 116, 122, 101, 110>>, <<8001, 961, 956, 940, 969>>, <<>> >> >>,   \* ὁρμάω
    << <<8004, 961, 957, 953, 962>>, << <<86, 111, 103, 101, 108>>, <<8004, 961, 957, 953, 962, 44, 32, 953, 952, 959, 962, 44, 32, 8001, 47, 7969>>, <<>> >> >>,   \* ὄρνις
    << <<8004, 961, 959, 962>>, << <<66, 101, 114, 103>>, <<8004, 961, 959, 962, 44, 32, 959, 965, 962, 44, 32, 964, 972>>, <<>> >> >>,   \* ὄρος
    << <<8005, 962>>, << <<119, 101, 108, 99, 104, 101, 114, 44, 32, 100, 101, 114>>, <<8005, 962, 44, 32, 7973, 44, 32, 8005>>, <<8003, 962, 32, 7940, 957, 32, 45, 32, 119, 101, 114, 32, 97, 117, 99, 104, 32, 105, 109, 109, 101, 114>> >> >>,   \* ὅς
    << <<8005, 963, 953, 959, 962>>, << <<104, 101, 105, 108, 105, 103, 44, 32, 114, 101, 99, 104, 116, 59, 32, 102, 114, 111, 109, 109>>, <<8005, 963, 953, 959, 962, 44, 32, 945, 44, 32, 959, 957>>, <<>> >> >>,   \* ὅσιος
    << <<8005, 963, 959, 962>>, << <<119, 105, 101, 32, 103, 114, 111, 223, 44, 32, 119, 105, 101, 32, 118, 105, 101, 108>>, <<8005, 963, 959, 962, 44, 32, 951, 44, 32, 959, 957>>, <<8005, 963, 8179, 46, 46, 46, 964, 959, 963, 959, 973, 964, 8179, 32, 45, 32, 106, 101, 46, 46, 46, 100, 101, 115, 116, 111>> >> >>,   \* ὅσος
    << <<8005, 963, 964, 953, 962>>, << <<119, 101, 114, 32, 97, 117, 99, 104, 32, 105, 109, 109, 101, 114>>, <<8005, 963, 964, 953, 962, 44, 32, 7973, 964, 953, 962, 44, 32, 8005, 32, 964, 953>>, <<>> >> >>,   \* ὅστις
    << <<8005, 964, 945, 957>>, << <<105, 109, 109, 101, 114, 32, 119, 101, 110, 110>>, <<8005, 964, 945, 957>>, <<>> >> >>,   \* ὅταν
    << <<8005, 964, 949>>, << <<97, 108, 115, 44, 32, 119, 101, 110, 110>>, <<8005, 964, 949>>, <<>> >> >>,   \* ὅτε
    << <<8005, 964, 953>>, << <<100, 97, 115, 115, 44, 32, 119, 101, 105, 108>>, <<8005, 964, 953>>, <<>> >> >>,   \* ὅτι
    << <<959, 8016>>, << <<110, 105, 99, 104, 116>>, <<959, 8016, 44, 32, 959, 8016, 954, 44, 32, 959, 8016, 967>>, <<>> >> >>,   \* οὐ
    << <<959, 8016, 948, 941>>, << <<117, 110, 100, 32, 110, 105, 99, 104, 116, 44, 32, 97, 117, 99, 104, 32, 110, 105, 99, 104, 116>>, <<959, 8016, 948, 941>>, <<>> >> >>,   \* οὐδέ
    << <<959, 8016, 948, 949, 943, 962>>, << <<110, 105, 101, 109, 97, 110, 100, 44, 32, 110, 105, 99, 104, 116, 115>>, <<959, 8016, 948, 949, 943, 962, 44, 32, 959, 8016, 948, 949, 956, 943, 945, 44, 32, 959, 8016, 948, 941, 957>>, <<>> >> >>,   \* οὐδείς
    << <<959, 8016, 954, 941, 964, 953>>, << <<110, 105, 99, 104, 116, 32, 109, 101, 104, 114>>, <<959, 8016, 954, 941, 964, 953>>, <<>> >> >>,   \* οὐκέτι
    << <<959, 8022, 957>>, << <<110, 117, 110, 59, 32, 97, 108, 115, 111>>, <<959, 8022, 957>>, <<>> >> >>,   \* οὖν
    << <<959, 8020, 960, 969>>, << <<110, 111, 99, 104, 32, 110, 105, 99, 104, 116>>, <<959, 8020, 960, 969>>, <<>> >> >>,   \* οὔπω
    << <<959, 8016, 961, 945, 957, 972, 962>>, << <<72, 105, 109, 109, 101, 108>>, <<959, 8016, 961, 945, 957, 972, 962, 44, 32, 959, 8166, 44, 32, 8001>>, <<>> >> >>,   \* οὐρανός
    << <<959, 8020, 964, 949, 46, 46, 46, 959, 8020, 964, 949>>, << <<119, 101, 100, 101, 114, 46, 46, 46, 32, 110, 111, 99, 104>>, <<959, 8020, 964, 949, 46, 46, 46, 959, 8020, 964, 949>>, <<>> >> >>,   \* οὔτε...οὔτε
    << <<959, 8023, 964, 959, 962>>, << <<100, 105, 101, 115, 101, 114>>, <<959, 8023, 964, 959, 962, 44, 32, 945, 8021, 964, 951, 44, 32, 964, 959, 8166, 964, 959>>, <<>> >> >>,   \* οὗτος
    << <<959, 8021, 964, 969, 962>>, << <<115, 111>>, <<959, 8021, 964, 969, 962, 47, 959, 8021, 964, 969>>, <<>> >> >>,   \* οὕτως
    << <<8000, 966, 949, 943, 955, 969>>, << <<115, 99, 104, 117, 108, 100, 101, 110, 44, 32, 115, 111, 108, 108, 101, 110>>, <<8000, 966, 949, 943, 955, 969>>, <<8036, 966, 949, 955, 949, 962, 32, 45, 32, 100, 117, 32, 104, 228, 116, 116, 101, 115, 116, 32, 115, 111, 108, 108, 101, 110>> >> >>,   \* ὀφείλω
    << <<8000, 966, 952, 945, 955, 956, 972, 962>>, << <<65, 117, 103, 101>>, <<8000, 966, 952, 945, 955, 956, 972, 962, 44, 32, 959, 8166, 44, 32, 8001>>, <<>> >> >>,   \* ὀφθαλμός
    << <<8004, 968, 953, 962>>, << <<83, 101, 104, 107, 114, 97, 102, 116, 44, 32, 65, 117, 115, 115, 101, 104, 101, 110>>, <<8004, 968, 953, 962, 44, 32, 949, 969, 962, 44, 32, 7969>>, <<>> >> >>,   \* ὄψις
    << <<960, 940, 952, 959, 962>>, << <<69, 114, 108, 101, 98, 110, 105, 115, 59, 32, 76, 101, 105, 100, 44, 32, 76, 101, 105, 100, 101, 110, 59, 32, 76, 101, 105, 100, 101, 110, 115, 99, 104, 97, 102, 116>>, <<960, 940, 952, 959, 962, 44, 32, 959, 965, 962, 44, 32, 964, 972>>, <<>> >> >>,   \* πάθος
    << <<960, 945, 953, 948, 949, 943, 945>>, << <<69, 114, 122, 105, 101, 104, 117, 110, 103, 44, 32, 66, 105, 108, 100, 117, 110, 103>>, <<960, 945, 953, 948, 949, 943, 945, 44, 32, 945, 962, 44, 32, 7969>>, <<>> >> >>,   \* παιδεία
    << <<960, 945, 953, 948, 949, 973, 969>>, << <<101, 114, 122, 105, 101, 104, 101, 110, 44, 32, 98, 105, 108, 100, 101, 110>>, <<960, 945, 953, 948, 949, 973, 969>>, <<>> >> >>,   \* παιδεύω
    << <<960, 945, 953, 948, 943, 959, 957>>, << <<75, 105, 110, 100>>, <<960, 945, 953, 948, 943, 959, 957, 44, 32, 959, 965, 44, 32, 964, 972>>, <<>> >> >>,   \* παιδίον
    << <<960, 945, 8150, 962>>, << <<75, 105, 110, 100, 59, 32, 83, 107, 108, 97, 118, 101>>, <<960, 945, 8150, 962, 44, 32, 960, 945, 953, 948, 972, 962, 44, 32, 8001, 47, 7969>>, <<>> >> >>,   \* παῖς
    << <<960, 945, 955, 945, 953, 972, 962>>, << <<97, 108, 116>>, <<960, 945, 955, 945, 953, 972, 962, 44, 32, 940, 44, 32, 972, 957>>, <<>> >> >>,   \* παλαιός
    << <<960, 940, 955, 953, 957>>, << <<119, 105, 101, 100, 101, 114, 44, 32, 122, 117, 114, 252, 99, 107>>, <<960, 940, 955, 953, 957>>, <<>> >> >>,   \* πάλιν
    << <<960, 945, 957, 964, 940, 960, 945, 963, 953>>, << <<103, 97, 110, 122, 32, 117, 110, 100, 32, 103, 97, 114>>, <<960, 945, 957, 964, 940, 960, 945, 963, 953>>, <<>> >> >>,   \* παντάπασι
    << <<960, 940, 957, 965>>, << <<103, 97, 110, 122, 44, 32, 115, 101, 104, 114>>, <<960, 940, 957, 965>>, <<>> >> >>,   \* πάνυ
    << <<960, 945, 961, 940>>, << <<118, 111, 110, 32, 40, 43, 71, 101, 110, 46, 41, 59, 32, 98, 101, 105, 32, 40, 43, 68, 97, 116, 46, 41, 59, 32, 122, 117, 32, 40, 43, 65, 107, 107, 46, 41>>, <<960, 945, 961, 940>>, <<>> >> >>,   \* παρά
    << <<960, 945, 961, 945, 947, 943, 947, 957, 959, 956, 945, 953>>, << <<104, 105, 110, 122, 117, 107, 111, 109, 109, 101, 110>>, <<960, 945, 961, 945, 947, 943, 947, 957, 959, 956, 945, 953>>, <<>> >> >>,   \* παραγίγνομαι
    << <<960, 945, 961, 945, 948, 943, 948, 969, 956, 953>>, << <<252, 98, 101, 114, 103, 101, 98, 101, 110, 44, 32, 252, 98, 101, 114, 108, 105, 101, 102, 101, 114, 110>>, <<960, 945, 961, 945, 948, 943, 948, 969, 956, 953>>, <<>> >> >>,   \* παραδίδωμι
    << <<960, 945, 961, 945, 954, 945, 955, 941, 969>>, << <<104, 101, 114, 98, 101, 105, 114, 117, 102, 101, 110, 44, 32, 97, 117, 102, 102, 111, 114, 100, 101, 114, 110>>, <<960, 945, 961, 945, 954, 945, 955, 941, 969>>, <<>> >> >>,   \* παρακαλέω
    << <<960, 945, 961, 945, 963, 954, 949, 965, 940, 950, 969>>, << <<118, 111, 114, 98, 101, 114, 101, 105, 116, 101, 110>>, <<960, 945, 961, 945, 963, 954, 949, 965, 940, 950, 969>>, <<>> >> >>,   \* παρασκευάζω
    << <<960, 940, 961, 949, 953, 956, 953>>, << <<100, 97, 32, 115, 101, 105, 110, 44, 32, 97, 110, 119, 101, 115, 101, 110, 100, 32, 115, 101, 105, 110>>, <<960, 940, 961, 949, 953, 956, 953>>, <<960, 940, 961, 949, 963, 964, 943, 32, 956, 959, 953, 32, 45, 32, 101, 115, 32, 115, 116, 101, 104, 116, 32, 105, 110, 32, 109, 101, 105, 110, 101, 114, 32, 77, 97, 99, 104, 116>> >> >>,   \* πάρειμι
    << <<960, 945, 961, 941, 967, 969>>, << <<103, 101, 119, 228, 104, 114, 101, 110, 44, 32, 103, 101, 98, 101, 110>>, <<960, 945, 961, 941, 967, 969>>, <<>> >> >>,   \* παρέχω
    << <<960, 8118, 962>>, << <<97, 108, 108, 44, 32, 103, 97, 110, 122, 44, 32, 106, 101, 100, 101, 114>>, <<960, 8118, 962, 44, 32, 960, 8118, 963, 945, 44, 32, 960, 8118, 957>>, <<>> >> >>,   \* πᾶς
    << <<960, 940, 963, 967, 969>>, << <<101, 114, 108, 101, 105, 100, 101, 110, 59, 32, 101, 114, 108, 101, 98, 101, 110>>, <<960, 940, 963, 967, 969, 44, 32, 960, 949, 943, 963, 959, 956, 945, 953, 44, 32, 7956, 960, 945, 952, 959, 957, 44, 32, 960, 941, 960, 959, 957, 952, 945>>, <<>> >> >>,   \* πάσχω
    << <<960, 945, 964, 942, 961>>, << <<86, 97, 116, 101, 114>>, <<960, 945, 964, 942, 961, 44, 32, 960, 945, 964, 961, 972, 962, 44, 32, 8001>>, <<>> >> >>,   \* πατήρ
    << <<960, 945, 964, 961, 943, 962>>, << <<86, 97, 116, 101, 114, 108, 97, 110, 100, 44, 32, 72, 101, 105, 109, 97, 116>>, <<960, 945, 964, 961, 943, 962, 44, 32, 943, 948, 959, 962, 44, 32, 7969>>, <<>> >> >>,   \* πατρίς
    << <<960, 945, 973, 969>>, << <<98, 101, 101, 110, 100, 101, 110, 44, 32, 97, 117, 102, 104, 246, 114, 101, 110, 32, 108, 97, 115, 115, 101, 110>>, <<960, 945, 973, 969, 44, 32, 960, 945, 973, 963, 969, 44, 32, 7956, 960, 945, 965, 963, 945>>, <<>> >> >>,   \* παύω
    << <<960, 949, 943, 952, 969>>, << <<252, 98, 101, 114, 114, 101, 100, 101, 110, 44, 32, 252, 98, 101, 114, 122, 101, 117, 103, 101, 110>>, <<960, 949, 943, 952, 969, 44, 32, 960, 949, 943, 963, 969, 44, 32, 7956, 960, 949, 953, 963, 945, 44, 32, 960, 941, 960, 959, 953, 952, 945, 44, 32, 960, 941, 960, 949, 953, 963, 956, 945, 953, 44, 32, 7952, 960, 949, 943, 963, 952, 951, 957>>, <<>> >> >>,   \* πείθω
    << <<960, 949, 953, 961, 940, 969>>, << <<118, 101, 114, 115, 117, 99, 104, 101, 110>>, <<960, 949, 953, 961, 940, 969>>, <<>> >> >>,   \* πειράω
    << <<960, 941, 956, 960, 969>>, << <<115, 99, 104, 105, 99, 107, 101, 110, 44, 32, 115, 101, 110, 100, 101, 110>>, <<960, 941, 956, 960, 969, 44, 32, 960, 941, 956, 968, 969, 44, 32, 7956, 960, 949, 956, 968, 945>>, <<>> >> >>,   \* πέμπω
    << <<960, 941, 957, 964, 949>>, << <<102, 252, 110, 102>>, <<960, 941, 957, 964, 949>>, <<>> >> >>,   \* πέντε
    << <<960, 949, 961, 943>>, << <<252, 98, 101, 114, 32, 40, 43, 71, 101, 110, 46, 41, 59, 32, 117, 109, 32, 40, 43, 65, 107, 107, 46, 41>>, <<960, 949, 961, 943>>, <<>> >> >>,   \* περί
    << <<960, 941, 964, 961, 945>>, << <<70, 101, 108, 115, 44, 32, 83, 116, 101, 105, 110>>, <<960, 941, 964, 961, 945, 44, 32, 945, 962, 44, 32, 7969>>, <<>> >> >>,   \* πέτρα
    << <<960, 943, 957, 969>>, << <<116, 114, 105, 110, 107, 101, 110>>, <<960, 943, 957, 969, 44, 32, 960, 943, 959, 956, 945, 953, 44, 32, 7956, 960, 953, 959, 957>>, <<>> >> >>,   \* πίνω
    << <<960, 943, 960, 964, 969>>, << <<102, 97, 108, 108, 101, 110>>, <<960, 943, 960, 964, 969, 44, 32, 960, 949, 963, 959, 8166, 956, 945, 953, 44, 32, 7956, 960, 949, 963, 959, 957, 44, 32, 960, 941, 960, 964, 969, 954, 945>>, <<>> >> >>,   \* πίπτω
    << <<960, 953, 963, 964, 949, 973, 969>>, << <<103, 108, 97, 117, 98, 101, 110, 44, 32, 118, 101, 114, 116, 114, 97, 117, 101, 110>>, <<960, 953, 963, 964, 949, 973, 969, 44, 32, 960, 953, 963, 964, 949, 973, 963, 969, 44, 32, 7952, 960, 943, 963, 964, 949, 965, 963, 945>>, <<>> >> >>,   \* πιστεύω
    << <<960, 943, 963, 964, 953, 962>>, << <<84, 114, 101, 117, 101, 44, 32, 86, 101, 114, 116, 114, 97, 117, 101, 110>>, <<960, 943, 963, 964, 953, 962, 44, 32, 949, 969, 962, 44, 32, 7969>>, <<>> >> >>,   \* πίστις
    << <<960, 953, 963, 964, 972, 962>>, << <<116, 114, 101, 117, 44, 32, 122, 117, 118, 101, 114, 108, 228, 115, 115, 105, 103>>, <<960, 953, 963, 964, 972, 962, 44, 32, 942, 44, 32, 972, 957>>, <<>> >> >>,   \* πιστός
    << <<960, 955, 945, 957, 940, 959, 956, 945, 953>>, << <<115, 105, 99, 104, 32, 118, 101, 114, 105, 114, 114, 101, 110, 44, 32, 117, 109, 104, 101, 114, 105, 114, 114, 101, 110>>, <<960, 955, 945, 957, 940, 959, 956, 945, 953>>, <<>> >> >>,   \* πλανάομαι
    << <<960, 955, 941, 969>>, << <<115, 101, 103, 101, 108, 110, 44, 32, 102, 97, 104, 114, 101, 110>>, <<960, 955, 941, 969, 44, 32, 960, 955, 949, 973, 963, 959, 956, 945, 953, 44, 32, 7956, 960, 955, 949, 965, 963, 945>>, <<>> >> >>,   \* πλέω
    << <<960, 955, 942, 952, 959, 962>>, << <<77, 101, 110, 103, 101>>, <<960, 955, 942, 952, 959, 962, 44, 32, 959, 965, 962, 44, 32, 964, 972>>, <<>> >> >>,   \* πλήθος
    << <<960, 955, 942, 957>>, << <<97, 117, 223, 101, 114>>, <<960, 955, 942, 957>>, <<>> >> >>,   \* πλήν
    << <<960, 955, 942, 964, 964, 969>>, << <<115, 99, 104, 108, 97, 103, 101, 110>>, <<960, 955, 942, 964, 964, 969>>, <<>> >> >>,   \* πλήττω
    << <<960, 955, 959, 8150, 959, 957>>, << <<83, 99, 104, 105, 102, 102>>, <<960, 955, 959, 8150, 959, 957, 44, 32, 959, 965, 44, 32, 964, 972>>, <<>> >> >>,   \* πλοῖον
    << <<960, 955, 959, 8166, 964, 959, 962>>, << <<82, 101, 105, 99, 104, 116, 117, 109>>, <<960, 955, 959, 8166, 964, 959, 962, 44, 32, 959, 965, 44, 32, 8001>>, <<>> >> >>,   \* πλοῦτος
    << <<960, 959, 953, 941, 969>>, << <<109, 97, 99, 104, 101, 110, 44, 32, 116, 117, 110, 59, 32, 100, 105, 99, 104, 116, 101, 110>>, <<960, 959, 953, 941, 969, 44, 32, 960, 959, 953, 942, 963, 969, 44, 32, 7952, 960, 959, 943, 951, 963, 945, 44, 32, 960, 949, 960, 959, 943, 951, 954, 945, 44, 32, 960, 949, 960, 959, 943, 951, 956, 945, 953, 44, 32, 7952, 960, 959, 953, 942, 952, 951, 957>>, <<>> >> >>,   \* ποιέω
    << <<960, 959, 943, 951, 963, 953, 962>>, << <<68, 105, 99, 104, 116, 117, 110, 103, 44, 32, 80, 111, 101, 115, 105, 101>>, <<960, 959, 943, 951, 963, 953, 962, 44, 32, 949, 969, 962, 44, 32, 7969>>, <<>> >> >>,   \* ποίησις
    << <<960, 959, 953, 951, 964, 942, 962>>, << <<68, 105, 99, 104, 116, 101, 114, 59, 32, 83, 99, 104, 246, 112, 102, 101, 114>>, <<960, 959, 953, 951, 964, 942, 962, 44, 32, 959, 8166, 44, 32, 8001>>, <<>> >> >>,   \* ποιητής
    << <<960, 959, 8150, 959, 962>>, << <<119, 105, 101, 32, 98, 101, 115, 99, 104, 97, 102, 102, 101, 110, 63>>, <<960, 959, 8150, 959, 962, 44, 32, 945, 44, 32, 959, 957>>, <<>> >> >>,   \* ποῖος
    << <<960, 972, 955, 949, 956, 959, 962>>, << <<75, 114, 105, 101, 103>>, <<960, 972, 955, 949, 956, 959, 962, 44, 32, 959, 965, 44, 32, 8001>>, <<>> >> >>,   \* πόλεμος
    << <<960, 972, 955, 953, 962>>, << <<83, 116, 97, 100, 116, 59, 32, 83, 116, 97, 97, 116>>, <<960, 972, 955, 953, 962, 44, 32, 949, 969, 962, 44, 32, 7969>>, <<>> >> >>,   \* πόλις
    << <<960, 959, 955, 953, 964, 949, 943, 945>>, << <<83, 116, 97, 97, 116, 115, 118, 101, 114, 102, 97, 115, 115, 117, 110, 103>>, <<960, 959, 955, 953, 964, 949, 943, 945, 44, 32, 945, 962, 44, 32, 7969>>, <<>> >> >>,   \* πολιτεία
    << <<960, 959, 955, 943, 964, 951, 962>>, << <<66, 252, 114, 103, 101, 114>>, <<960, 959, 955, 943, 964, 951, 962, 44, 32, 959, 965, 44, 32, 8001>>, <<>> >> >>,   \* πολίτης
    << <<960, 959, 955, 953, 964, 953, 954, 972, 962>>, << <<98, 252, 114, 103, 101, 114, 108, 105, 99, 104, 44, 32, 112, 111, 108, 105, 116, 105, 115, 99, 104>>, <<960, 959, 955, 953, 964, 953, 954, 972, 962, 44, 32, 942, 44, 32, 972, 957>>, <<>> >> >>,   \* πολιτικός
    << <<960, 959, 955, 955, 940, 954, 953, 962>>, << <<111, 102, 116>>, <<960, 959, 955, 955, 940, 954, 953, 962>>, <<>> >> >>,   \* πολλάκις
    << <<960, 959, 955, 973, 962>>, << <<118, 105, 101, 108>>, <<960, 959, 955, 973, 962, 44, 32, 960, 959, 955, 955, 942, 44, 32, 960, 959, 955, 973>>, <<959, 7985, 32, 960, 959, 955, 955, 959, 943, 32, 45, 32, 100, 105, 101, 32, 109, 101, 105, 115, 116, 101, 110>> >> >>,   \* πολύς
    << <<960, 959, 957, 951, 961, 972, 962>>, << <<115, 99, 104, 108, 101, 99, 104, 116, 44, 32, 98, 246, 115, 101>>, <<960, 959, 957, 951, 961, 972, 962, 44, 32, 940, 44, 32, 972, 957>>, <<>> >> >>,   \* πονηρός
    << <<960, 972, 957, 959, 962>>, << <<77, 252, 104, 101, 44, 32, 65, 114, 98, 101, 105, 116>>, <<960, 972, 957, 959, 962, 44, 32, 959, 965, 44, 32, 8001>>, <<>> >> >>,   \* πόνος
    << <<960, 959, 961, 949, 973, 959, 956, 945, 953>>, << <<114, 101, 105, 115, 101, 110, 44, 32, 109, 97, 114, 115, 99, 104, 105, 101, 114, 101, 110>>, <<960, 959, 961, 949, 973, 959, 956, 945, 953, 44, 32, 960, 959, 961, 949, 973, 963, 959, 956, 945, 953, 44, 32, 7952, 960, 959, 961, 949, 973, 952, 951, 957>>, <<>> >> >>,   \* πορεύομαι
    << <<960, 959, 964, 945, 956, 972, 962>>, << <<70, 108, 117, 115, 115>>, <<960, 959, 964, 945, 956, 972, 962, 44, 32, 959, 8166, 44, 32, 8001>>, <<>> >> >>,   \* ποταμός
    << <<960, 972, 964, 949>>, << <<119, 97, 110, 110, 63>>, <<960, 972, 964, 949>>, <<>> >> >>,   \* πότε
    << <<960, 959, 964, 941>>, << <<101, 105, 110, 115, 116, 44, 32, 106, 101, 109, 97, 108, 115>>, <<960, 959, 964, 941>>, <<>> >> >>,   \* ποτέ
    << <<960, 972, 964, 949, 961, 959, 962>>, << <<119, 101, 108, 99, 104, 101, 114, 32, 118, 111, 110, 32, 98, 101, 105, 100, 101, 110, 63>>, <<960, 972, 964, 949, 961, 959, 962, 44, 32, 945, 44, 32, 959, 957>>, <<>> >> >>,   \* πότερος
    << <<960, 959, 8166>>, << <<119, 111, 63>>, <<960, 959, 8166>>, <<>> >> >>,   \* ποῦ
    << <<960, 959, 973, 962>>, << <<70, 117, 223>>, <<960, 959, 973, 962, 44, 32, 960, 959, 948, 972, 962, 44, 32, 8001>>, <<>> >> >>,   \* πούς
    << <<960, 961, 8118, 947, 956, 945>>, << <<84, 97, 116, 44, 32, 83, 97, 99, 104, 101, 44, 32, 65, 110, 103, 101, 108, 101, 103, 101, 110, 104, 101, 105, 116>>, <<960, 961, 8118, 947, 956, 945, 44, 32, 945, 964, 959, 962, 44, 32, 964, 972>>, <<960, 961, 940, 947, 956, 945, 964, 945, 32, 960, 945, 961, 941, 967, 969, 32, 45, 32, 83, 99, 104, 119, 105, 101, 114, 105, 103, 107, 101, 105, 116, 101, 110, 32, 98, 101, 114, 101, 105, 116, 101, 110>> >> >>,   \* πρᾶγμα
    << <<960, 961, 8118, 958, 953, 962>>, << <<72, 97, 110, 100, 108, 117, 110, 103, 44, 32, 84, 228, 116, 105, 103, 107, 101, 105, 116>>, <<960, 961, 8118, 958, 953, 962, 44, 32, 949, 969, 962, 44, 32, 7969>>, <<>> >> >>,   \* πρᾶξις
    << <<960, 961, 940, 964, 964, 969>>, << <<116, 117, 110, 44, 32, 104, 97, 110, 100, 101, 108, 110>>, <<960, 961, 940, 964, 964, 969, 44, 32, 960, 961, 940, 958, 969, 44, 32, 7956, 960, 961, 945, 958, 945, 44, 32, 960, 941, 960, 961, 945, 967, 945>>, <<949, 8022, 32, 960, 961, 940, 964, 964, 969, 32, 45, 32, 101, 115, 32, 103, 101, 104, 116, 32, 109, 105, 114, 32, 103, 117, 116>> >> >>,   \* πράττω
    << <<960, 961, 941, 960, 949, 953>>, << <<101, 115, 32, 103, 101, 104, 246, 114, 116, 32, 115, 105, 99, 104>>, <<960, 961, 941, 960, 949, 953>>, <<>> >> >>,   \* πρέπει
    << <<960, 961, 941, 963, 946, 965, 962>>, << <<97, 108, 116, 101, 114, 32, 77, 97, 110, 110, 59, 32, 71, 101, 115, 97, 110, 100, 116, 101, 114>>, <<960, 961, 941, 963, 946, 965, 962, 44, 32, 949, 969, 962, 44, 32, 8001>>, <<>> >> >>,   \* πρέσβυς
    << <<960, 961, 943, 957>>, << <<101, 104, 101, 44, 32, 98, 101, 118, 111, 114>>, <<960, 961, 943, 957>>, <<>> >> >>,   \* πρίν
    << <<960, 961, 972>>, << <<118, 111, 114>>, <<960, 961, 972>>, <<>> >> >>,   \* πρό
    << <<960, 961, 972, 962>>, << <<122, 117, 44, 32, 103, 101, 103, 101, 110, 44, 32, 98, 101, 105>>, <<960, 961, 972, 962>>, <<>> >> >>,   \* πρός
    << <<960, 961, 959, 963, 941, 967, 969>>, << <<104, 105, 110, 108, 101, 110, 107, 101, 110>>, <<960, 961, 959, 963, 941, 967, 969>>, <<960, 961, 959, 963, 941, 967, 969, 32, 964, 8056, 957, 32, 957, 959, 8166, 957, 32, 45, 32, 97, 99, 104, 116, 101, 110, 32, 97, 117, 102>> >> >>,   \* προσέχω
    << <<960, 961, 972, 963, 969, 960, 959, 957>>, << <<71, 101, 115, 105, 99, 104, 116, 59, 32, 80, 101, 114, 115, 111, 110>>, <<960, 961, 972, 963, 969, 960, 959, 957, 44, 32, 959, 965, 44, 32, 964, 972>>, <<>> >> >>,   \* πρόσωπον
    << <<960, 961, 972, 964, 949, 961, 959, 962>>, << <<100, 101, 114, 32, 102, 114, 252, 104, 101, 114, 101>>, <<960, 961, 972, 964, 949, 961, 959, 962, 44, 32, 945, 44, 32, 959, 957>>, <<960, 961, 972, 964, 949, 961, 959, 957, 32, 45, 32, 102, 114, 252, 104, 101, 114>> >> >>,   \* πρότερος
    << <<960, 961, 8182, 964, 959, 962>>, << <<100, 101, 114, 32, 101, 114, 115, 116, 101>>, <<960, 961, 8182, 964, 959, 962, 44, 32, 951, 44, 32, 959, 957>>, <<960, 961, 8182, 964, 959, 957, 32, 45, 32, 122, 117, 101, 114, 115, 116>> >> >>,   \* πρῶτος
    << <<960, 965, 957, 952, 940, 957, 959, 956, 945, 953>>, << <<115, 105, 99, 104, 32, 101, 114, 107, 117, 110, 100, 105, 103, 101, 110, 44, 32, 101, 114, 102, 97, 104, 114, 101, 110>>, <<960, 965, 957, 952, 940, 957, 959, 956, 945, 953, 44, 32, 960, 949, 973, 963, 959, 956, 945, 953, 44, 32, 7952, 960, 965, 952, 972, 956, 951, 957, 44, 32, 960, 941, 960, 965, 963, 956, 945, 953>>, <<>> >> >>,   \* πυνθάνομαι
    << <<960, 8166, 961>>, << <<70, 101, 117, 101, 114>>, <<960, 8166, 961, 44, 32, 960, 965, 961, 972, 962, 44, 32, 964, 972>>, <<>> >> >>,   \* πῦρ
    << <<960, 974, 960, 959, 964, 949>>, << <<106, 101, 109, 97, 108, 115>>, <<960, 974, 960, 959, 964, 949>>, <<>> >> >>,   \* πώποτε
    << <<960, 8182, 962>>, << <<119, 105, 101, 63>>, <<960, 8182, 962>>, <<>> >> >>,   \* πῶς
    << <<960, 969, 962>>, << <<105, 114, 103, 101, 110, 100, 119, 105, 101>>, <<960, 969, 962>>, <<>> >> >>,   \* πως
    << <<8165, 8116, 948, 953, 959, 962>>, << <<108, 101, 105, 99, 104, 116>>, <<8165, 8116, 948, 953, 959, 962, 44, 32, 945, 44, 32, 959, 957>>, <<>> >> >>,   \* ῥᾴδιος
    << <<8165, 941, 969>>, << <<102, 108, 105, 101, 223, 101, 110>>, <<8165, 941, 969>>, <<>> >> >>,   \* ῥέω
    << <<8165, 942, 964, 969, 961>>, << <<82, 101, 100, 110, 101, 114>>, <<8165, 942, 964, 969, 961, 44, 32, 959, 961, 959, 962, 44, 32, 8001>>, <<>> >> >>,   \* ῥήτωρ
    << <<963, 945, 966, 942, 962>>, << <<100, 101, 117, 116, 108, 105, 99, 104, 44, 32, 107, 108, 97, 114>>, <<963, 945, 966, 942, 962, 44, 32, 941, 962>>, <<>> >> >>,   \* σαφής
    << <<963, 949, 945, 965, 964, 959, 8166>>, << <<100, 101, 105, 110, 101, 114, 32, 115, 101, 108, 98, 115, 116>>, <<963, 949, 945, 965, 964, 959, 8166, 44, 32, 8134, 962, 44, 32, 959, 8166>>, <<>> >> >>,   \* σεαυτοῦ
    << <<963, 941, 946, 959, 956, 945, 953>>, << <<118, 101, 114, 101, 104, 114, 101, 110>>, <<963, 941, 946, 959, 956, 945, 953>>, <<>> >> >>,   \* σέβομαι
    << <<963, 951, 956, 945, 943, 957, 969>>, << <<122, 101, 105, 103, 101, 110, 44, 32, 97, 110, 122, 101, 105, 103, 101, 110>>, <<963, 951, 956, 945, 943, 957, 969>>, <<>> >> >>,   \* σημαίνω
    << <<963, 8150, 964, 959, 962>>, << <<71, 101, 116, 114, 101, 105, 100, 101, 44, 32, 78, 97, 104, 114, 117, 110, 103>>, <<963, 8150, 964, 959, 962, 44, 32, 959, 965, 44, 32, 8001>>, <<>> >> >>,   \* σῖτος
    << <<963, 954, 951, 957, 942>>, << <<90, 101, 108, 116, 59, 32, 66, 252, 104, 110, 101>>, <<963, 954, 951, 957, 942, 44, 32, 8134, 962, 44, 32, 7969>>, <<>> >> >>,   \* σκηνή
    << <<963, 954, 959, 960, 941, 969>>, << <<98, 101, 116, 114, 97, 99, 104, 116, 101, 110, 44, 32, 112, 114, 252, 102, 101, 110>>, <<963, 954, 959, 960, 941, 969>>, <<>> >> >>,   \* σκοπέω
    << <<963, 972, 962>>, << <<100, 101, 105, 110>>, <<963, 972, 962, 44, 32, 963, 942, 44, 32, 963, 972, 957>>, <<>> >> >>,   \* σός
    << <<963, 959, 966, 943, 945>>, << <<87, 101, 105, 115, 104, 101, 105, 116, 44, 32, 75, 108, 117, 103, 104, 101, 105, 116>>, <<963, 959, 966, 943, 945, 44, 32, 945, 962, 44, 32, 7969>>, <<>> >> >>,   \* σοφία
    << <<963, 959, 966, 972, 962>>, << <<119, 101, 105, 115, 101, 44, 32, 107, 108, 117, 103>>, <<963, 959, 966, 972, 962, 44, 32, 942, 44, 32, 972, 957>>, <<>> >> >>,   \* σοφός
    << <<963, 960, 949, 973, 948, 969>>, << <<101, 105, 108, 101, 110, 44, 32, 115, 105, 99, 104, 32, 98, 101, 101, 105, 108, 101, 110>>, <<963, 960, 949, 973, 948, 969>>, <<>> >> >>,   \* σπεύδω
    << <<963, 960, 959, 965, 948, 940, 950, 969>>, << <<115, 105, 99, 104, 32, 98, 101, 101, 105, 108, 101, 110, 44, 32, 115, 105, 99, 104, 32, 98, 101, 109, 252, 104, 101, 110>>, <<963, 960, 959, 965, 948, 940, 950, 969>>, <<>> >> >>,   \* σπουδάζω
    << <<963, 960, 959, 965, 948, 942>>, << <<69, 105, 102, 101, 114, 44, 32, 69, 114, 110, 115, 116, 59, 32, 69, 105, 108, 101>>, <<963, 960, 959, 965, 948, 942, 44, 32, 8134, 962, 44, 32, 7969>>, <<>> >> >>,   \* σπουδή
    << <<963, 964, 940, 963, 953, 962>>, << <<65, 117, 102, 115, 116, 97, 110, 100, 44, 32, 85, 110, 114, 117, 104, 101>>, <<963, 964, 940, 963, 953, 962, 44, 32, 949, 969, 962, 44, 32, 7969>>, <<>> >> >>,   \* στάσις
    << <<963, 964, 941, 966, 945, 957, 959, 962>>, << <<75, 114, 97, 110, 122, 44, 32, 83, 105, 101, 103, 101, 115, 107, 114, 97, 110, 122>>, <<963, 964, 941, 966, 945, 957, 959, 962, 44, 32, 959, 965, 44, 32, 8001>>, <<>> >> >>,   \* στέφανος
    << <<963, 964, 959, 940>>, << <<83, 228, 117, 108, 101, 110, 104, 97, 108, 108, 101>>, <<963, 964, 959, 940, 44, 32, 8118, 962, 44, 32, 7969>>, <<>> >> >>,   \* στοά
    << <<963, 964, 961, 945, 964, 951, 947, 972, 962>>, << <<70, 101, 108, 100, 104, 101, 114, 114>>, <<963, 964, 961, 945, 964, 951, 947, 972, 962, 44, 32, 959, 8166, 44, 32, 8001>>, <<>> >> >>,   \* στρατηγός
    << <<963, 964, 961, 945, 964, 953, 974, 964, 951, 962>>, << <<83, 111, 108, 100, 97, 116>>, <<963, 964, 961, 945, 964, 953, 974, 964, 951, 962, 44, 32, 959, 965, 44, 32, 8001>>, <<>> >> >>,   \* στρατιώτης
    << <<963, 964, 961, 945, 964, 972, 962>>, << <<72, 101, 101, 114>>, <<963, 964, 961, 945, 964, 972, 962, 44, 32, 959, 8166, 44, 32, 8001>>, <<>> >> >>,   \* στρατός
    << <<963, 964, 961, 941, 966, 969>>, << <<100, 114, 101, 104, 101, 110, 44, 32, 119, 101, 110, 100, 101, 110>>, <<963, 964, 961, 941, 966, 969>>, <<>> >> >>,   \* στρέφω
    << <<963, 973>>, << <<100, 117>>, <<963, 973, 44, 32, 963, 959, 8166>>, <<>> >> >>,   \* σύ
    << <<963, 965, 947, 947, 943, 947, 957, 959, 956, 945, 953>>, << <<122, 117, 115, 97, 109, 109, 101, 110, 107, 111, 109, 109, 101, 110>>, <<963, 965, 947, 947, 943, 947, 957, 959, 956, 945, 953>>, <<>> >> >>,   \* συγγίγνομαι
    << <<963, 965, 947, 967, 969, 961, 941, 969>>, << <<110, 97, 99, 104, 103, 101, 98, 101, 110, 44, 32, 122, 117, 115, 116, 105, 109, 109, 101, 110>>, <<963, 965, 947, 967, 969, 961, 941, 969>>, <<>> >> >>,   \* συγχωρέω
    << <<963, 965, 956, 946, 945, 943, 957, 969>>, << <<115, 105, 99, 104, 32, 101, 114, 101, 105, 103, 110, 101, 110>>, <<963, 965, 956, 946, 945, 943, 957, 969, 44, 32, 963, 965, 956, 946, 942, 963, 959, 956, 945, 953, 44, 32, 963, 965, 957, 941, 946, 951, 957, 44, 32, 963, 965, 956, 946, 941, 946, 951, 954, 945>>, <<>> >> >>,   \* συμβαίνω
    << <<963, 965, 956, 946, 959, 965, 955, 949, 973, 969>>, << <<114, 97, 116, 101, 110>>, <<963, 965, 956, 946, 959, 965, 955, 949, 973, 969>>, <<>> >> >>,   \* συμβουλεύω
    << <<963, 973, 956, 956, 945, 967, 959, 962>>, << <<118, 101, 114, 98, 252, 110, 100, 101, 116>>, <<963, 973, 956, 956, 945, 967, 959, 962, 44, 32, 959, 957>>, <<>> >> >>,   \* σύμμαχος
    << <<963, 973, 957>>, << <<109, 105, 116>>, <<963, 973, 957>>, <<>> >> >>,   \* σύν
    << <<963, 973, 957, 949, 953, 956, 953>>, << <<122, 117, 115, 97, 109, 109, 101, 110, 32, 115, 101, 105, 110>>, <<963, 973, 957, 949, 953, 956, 953>>, <<>> >> >>,   \* σύνειμι
    << <<963, 965, 957, 943, 951, 956, 953>>, << <<118, 101, 114, 115, 116, 101, 104, 101, 110>>, <<963, 965, 957, 943, 951, 956, 953>>, <<>> >> >>,   \* συνίημι
    << <<963, 966, 972, 948, 961, 945>>, << <<115, 101, 104, 114>>, <<963, 966, 972, 948, 961, 945>>, <<>> >> >>,   \* σφόδρα
    << <<963, 967, 949, 948, 972, 957>>, << <<98, 101, 105, 110, 97, 104, 101>>, <<963, 967, 949, 948, 972, 957>>, <<>> >> >>,   \* σχεδόν
    << <<963, 967, 8134, 956, 945>>, << <<72, 97, 108, 116, 117, 110, 103, 44, 32, 71, 101, 115, 116, 97, 108, 116>>, <<963, 967, 8134, 956, 945, 44, 32, 945, 964, 959, 962, 44, 32, 964, 972>>, <<>> >> >>,   \* σχῆμα
    << <<963, 967, 959, 955, 942>>, << <<77, 117, 223, 101, 59, 32, 83, 99, 104, 117, 108, 101>>, <<963, 967, 959, 955, 942, 44, 32, 8134, 962, 44, 32, 7969>>, <<>> >> >>,   \* σχολή
    << <<963, 8180, 950, 969>>, << <<114, 101, 116, 116, 101, 110, 44, 32, 98, 101, 119, 97, 104, 114, 101, 110>>, <<963, 8180, 950, 969, 44, 32, 963, 974, 963, 969, 44, 32, 7956, 963, 969, 963, 945, 44, 32, 963, 941, 963, 969, 954, 945>>, <<>> >> >>,   \* σῴζω
    << <<963, 8182, 956, 945>>, << <<75, 246, 114, 112, 101, 114>>, <<963, 8182, 956, 945, 44, 32, 945, 964, 959, 962, 44, 32, 964, 972>>, <<>> >> >>,   \* σῶμα
    << <<963, 969, 964, 942, 961>>, << <<82, 101, 116, 116, 101, 114>>, <<963, 969, 964, 942, 961, 44, 32, 8134, 961, 959, 962, 44, 32, 8001>>, <<>> >> >>,   \* σωτήρ
    << <<963, 969, 966, 961, 959, 963, 973, 957, 951>>, << <<66, 101, 115, 111, 110, 110, 101, 110, 104, 101, 105, 116>>, <<963, 969, 966, 961, 959, 963, 973, 957, 951, 44, 32, 951, 962, 44, 32, 7969>>, <<>> >> >>,   \* σωφροσύνη
    << <<963, 974, 966, 961, 969, 957>>, << <<98, 101, 115, 111, 110, 110, 101, 110, 44, 32, 118, 101, 114, 110, 252, 110, 102, 116, 105, 103>>, <<963, 974, 966, 961, 969, 957, 44, 32, 959, 957>>, <<>> >> >>,   \* σώφρων
    << <<964, 940, 964, 964, 969>>, << <<97, 117, 102, 115, 116, 101, 108, 108, 101, 110, 44, 32, 97, 110, 111, 114, 100, 110, 101, 110>>, <<964, 940, 964, 964, 969, 44, 32, 964, 940, 958, 969, 44, 32, 7956, 964, 945, 958, 945, 44, 32, 964, 941, 964, 945, 967, 945, 44, 32, 964, 941, 964, 945, 947, 956, 945, 953, 44, 32, 7952, 964, 940, 967, 952, 951, 957>>, <<>> >> >>,   \* τάττω
    << <<964, 945, 967, 973, 962>>, << <<115, 99, 104, 110, 101, 108, 108>>, <<964, 945, 967, 973, 962, 44, 32, 949, 8150, 945, 44, 32, 973>>, <<>> >> >>,   \* ταχύς
    << <<964, 949>>, << <<117, 110, 100>>, <<964, 949>>, <<46, 46, 46, 964, 949, 46, 46, 46, 954, 945, 943, 32, 45, 32, 115, 111, 119, 111, 104, 108, 46, 46, 46, 97, 108, 115, 32, 97, 117, 99, 104>> >> >>,   \* τε
    << <<964, 949, 8150, 967, 959, 962>>, << <<77, 97, 117, 101, 114>>, <<964, 949, 8150, 967, 959, 962, 44, 32, 959, 965, 962, 44, 32, 964, 972>>, <<>> >> >>,   \* τεῖχος
    << <<964, 949, 954, 956, 942, 961, 953, 959, 957>>, << <<66, 101, 119, 101, 105, 115>>, <<964, 949, 954, 956, 942, 961, 953, 959, 957, 44, 32, 959, 965, 44, 32, 964, 972>>, <<>> >> >>,   \* τεκμήριον
    << <<964, 941, 954, 957, 959, 957>>, << <<75, 105, 110, 100>>, <<964, 941, 954, 957, 959, 957, 44, 32, 959, 965, 44, 32, 964, 972>>, <<>> >> >>,   \* τέκνον
    << <<964, 949, 955, 949, 965, 964, 940, 969>>, << <<98, 101, 101, 110, 100, 101, 110, 59, 32, 115, 116, 101, 114, 98, 101, 110>>, <<964, 949, 955, 949, 965, 964, 940, 969>>, <<>> >> >>,   \* τελευτάω
    << <<964, 949, 955, 941, 969>>, << <<118, 111, 108, 108, 101, 110, 100, 101, 110, 44, 32, 98, 101, 122, 97, 104, 108, 101, 110>>, <<964, 949, 955, 941, 969>>, <<>> >> >>,   \* τελέω
    << <<964, 941, 955, 959, 962>>, << <<69, 110, 100, 101, 59, 32, 90, 105, 101, 108>>, <<964, 941, 955, 959, 962, 44, 32, 959, 965, 962, 44, 32, 964, 972>>, <<964, 941, 955, 959, 962, 32, 45, 32, 101, 110, 100, 108, 105, 99, 104>> >> >>,   \* τέλος
    << <<964, 941, 956, 957, 969>>, << <<115, 99, 104, 110, 101, 105, 100, 101, 110>>, <<964, 941, 956, 957, 969, 44, 32, 964, 949, 956, 8182, 44, 32, 7956, 964, 949, 956, 959, 957>>, <<>> >> >>,   \* τέμνω
    << <<964, 941, 964, 964, 945, 961, 949, 962>>, << <<118, 105, 101, 114>>, <<964, 941, 964, 964, 945, 961, 949, 962, 44, 32, 945>>, <<>> >> >>,   \* τέτταρες
    << <<964, 941, 967, 957, 951>>, << <<75, 117, 110, 115, 116, 44, 32, 70, 228, 104, 105, 103, 107, 101, 105, 116>>, <<964, 941, 967, 957, 951, 44, 32, 951, 962, 44, 32, 7969>>, <<>> >> >>,   \* τέχνη
    << <<964, 943, 952, 951, 956, 953>>, << <<115, 101, 116, 122, 101, 110, 44, 32, 115, 116, 101, 108, 108, 101, 110, 44, 32, 108, 101, 103, 101, 110>>, <<964, 943, 952, 951, 956, 953, 44, 32, 952, 942, 963, 969, 44, 32, 7956, 952, 951, 954, 945, 44, 32, 964, 941, 952, 951, 954, 945, 44, 32, 954, 949, 8150, 956, 945, 953, 44, 32, 7952, 964, 941, 952, 951, 957>>, <<>> >> >>,   \* τίθημι
    << <<964, 943, 954, 964, 969>>, << <<122, 101, 117, 103, 101, 110, 44, 32, 103, 101, 98, 228, 114, 101, 110>>, <<964, 943, 954, 964, 969, 44, 32, 964, 941, 958, 959, 956, 945, 953, 44, 32, 7956, 964, 949, 954, 959, 957, 44, 32, 964, 941, 964, 959, 954, 945>>, <<>> >> >>,   \* τίκτω
    << <<964, 953, 956, 940, 969>>, << <<101, 104, 114, 101, 110>>, <<964, 953, 956, 940, 969, 44, 32, 964, 953, 956, 942, 963, 969, 44, 32, 7952, 964, 943, 956, 951, 963, 945, 44, 32, 964, 949, 964, 943, 956, 951, 954, 945>>, <<>> >> >>,   \* τιμάω
    << <<964, 953, 956, 942>>, << <<69, 104, 114, 101>>, <<964, 953, 956, 942, 44, 32, 8134, 962, 44, 32, 7969>>, <<>> >> >>,   \* τιμή
    << <<964, 953, 962>>, << <<106, 101, 109, 97, 110, 100, 44, 32, 105, 114, 103, 101, 110, 100, 101, 105, 110, 101, 114>>, <<964, 953, 962, 44, 32, 964, 953>>, <<>> >> >>,   \* τις
    << <<964, 943, 962>>, << <<119, 101, 114, 63, 32, 119, 97, 115, 63>>, <<964, 943, 962, 44, 32, 964, 943>>, <<>> >> >>,   \* τίς
    << <<964, 959, 953>>, << <<119, 97, 104, 114, 108, 105, 99, 104>>, <<964, 959, 953>>, <<>> >> >>,   \* τοι
    << <<964, 959, 943, 957, 965, 957>>, << <<97, 108, 115, 111, 44, 32, 102, 111, 108, 103, 108, 105, 99, 104>>, <<964, 959, 943, 957, 965, 957>>, <<>> >> >>,   \* τοίνυν
    << <<964, 959, 953, 959, 8166, 964, 959, 962>>, << <<115, 111, 108, 99, 104, 101, 114, 44, 32, 100, 101, 114, 97, 114, 116, 105, 103>>, <<964, 959, 953, 959, 8166, 964, 959, 962, 44, 32, 945, 973, 964, 951, 44, 32, 959, 8166, 964, 959>>, <<>> >> >>,   \* τοιοῦτος
    << <<964, 959, 955, 956, 940, 969>>, << <<119, 97, 103, 101, 110>>, <<964, 959, 955, 956, 940, 969>>, <<>> >> >>,   \* τολμάω
    << <<964, 972, 960, 959, 962>>, << <<79, 114, 116, 44, 32, 80, 108, 97, 116, 122>>, <<964, 972, 960, 959, 962, 44, 32, 959, 965, 44, 32, 8001>>, <<>> >> >>,   \* τόπος
    << <<964, 959, 963, 959, 8166, 964, 959, 962>>, << <<115, 111, 32, 103, 114, 111, 223>>, <<964, 959, 963, 959, 8166, 964, 959, 962, 44, 32, 945, 973, 964, 951, 44, 32, 959, 8166, 964, 959>>, <<>> >> >>,   \* τοσοῦτος
    << <<964, 972, 964, 949>>, << <<100, 97, 44, 32, 100, 97, 109, 97, 108, 115, 44, 32, 100, 97, 110, 110>>, <<964, 972, 964, 949>>, <<>> >> >>,   \* τότε
    << <<964, 961, 949, 8150, 962>>, << <<100, 114, 101, 105>>, <<964, 961, 949, 8150, 962, 44, 32, 964, 961, 943, 945>>, <<>> >> >>,   \* τρεῖς
    << <<964, 961, 941, 960, 969>>, << <<119, 101, 110, 100, 101, 110>>, <<964, 961, 941, 960, 969, 44, 32, 964, 961, 941, 968, 969, 44, 32, 7956, 964, 961, 949, 968, 945>>, <<>> >> >>,   \* τρέπω
    << <<964, 961, 941, 966, 969>>, << <<101, 114, 110, 228, 104, 114, 101, 110, 44, 32, 97, 117, 102, 122, 105, 101, 104, 101, 110>>, <<964, 961, 941, 966, 969, 44, 32, 952, 961, 941, 968, 969, 44, 32, 7956, 952, 961, 949, 968, 945, 44, 32, 964, 941, 952, 961, 945, 956, 956, 945, 953, 44, 32, 7952, 964, 961, 940, 966, 951, 957>>, <<>> >> >>,   \* τρέφω
    << <<964, 961, 972, 960, 959, 962>>, << <<65, 114, 116, 32, 117, 110, 100, 32, 87, 101, 105, 115, 101, 59, 32, 67, 104, 97, 114, 97, 107, 116, 101, 114>>, <<964, 961, 972, 960, 959, 962, 44, 32, 959, 965, 44, 32, 8001>>, <<>> >> >>,   \* τρόπος
    << <<964, 965, 947, 967, 940, 957, 969>>, << <<116, 114, 101, 102, 102, 101, 110, 59, 32, 103, 101, 114, 97, 100, 101, 32, 116, 117, 110>>, <<964, 965, 947, 967, 940, 957, 969, 44, 32, 964, 949, 973, 958, 959, 956, 945, 953, 44, 32, 7956, 964, 965, 967, 959, 957, 44, 32, 964, 949, 964, 973, 967, 951, 954, 945>>, <<964, 965, 947, 967, 940, 957, 969, 32, 960, 959, 953, 8182, 957, 32, 964, 953, 32, 45, 32, 103, 101, 114, 97, 100, 101, 32, 101, 116, 119, 46, 32, 116, 117, 110>> >> >>,   \* τυγχάνω
    << <<964, 973, 960, 964, 969>>, << <<115, 99, 104, 108, 97, 103, 101, 110>>, <<964, 973, 960, 964, 969>>, <<>> >> >>,   \* τύπτω
    << <<964, 973, 961, 945, 957, 957, 959, 962>>, << <<71, 101, 119, 97, 108, 116, 104, 101, 114, 114, 115, 99, 104, 101, 114>>, <<964, 973, 961, 945, 957, 957, 959, 962, 44, 32, 959, 965, 44, 32, 8001>>, <<>> >> >>,   \* τύραννος
    << <<964, 973, 967, 951>>, << <<90, 117, 102, 97, 108, 108, 44, 32, 83, 99, 104, 105, 99, 107, 115, 97, 108, 44, 32, 71, 108, 252, 99, 107>>, <<964, 973, 967, 951, 44, 32, 951, 962, 44, 32, 7969>>, <<>> >> >>,   \* τύχη
    << <<8021, 946, 961, 953, 962>>, << <<72, 111, 99, 104, 109, 117, 116, 59, 32, 70, 114, 101, 118, 101, 108, 116, 97, 116>>, <<8021, 946, 961, 953, 962, 44, 32, 949, 969, 962, 44, 32, 7969>>, <<>> >> >>,   \* ὕβρις
    << <<8017, 947, 943, 949, 953, 945>>, << <<71, 101, 115, 117, 110, 100, 104, 101, 105, 116>>, <<8017, 947, 943, 949, 953, 945, 44, 32, 945, 962, 44, 32, 7969>>, <<>> >> >>,   \* ὑγίεια
    << <<8017, 947, 953, 942, 962>>, << <<103, 101, 115, 117, 110, 100>>, <<8017, 947, 953, 942, 962, 44, 32, 941, 962>>, <<>> >> >>,   \* ὑγιής
    << <<8021, 948, 969, 961>>, << <<87, 97, 115, 115, 101, 114>>, <<8021, 948, 969, 961, 44, 32, 945, 964, 959, 962, 44, 32, 964, 972>>, <<>> >> >>,   \* ὕδωρ
    << <<965, 7985, 972, 962>>, << <<83, 111, 104, 110>>, <<965, 7985, 972, 962, 44, 32, 959, 8166, 44, 32, 8001>>, <<>> >> >>,   \* υἱός
    << <<8017, 956, 949, 8150, 962>>, << <<105, 104, 114>>, <<8017, 956, 949, 8150, 962, 44, 32, 8017, 956, 8182, 957, 44, 32, 8017, 956, 8150, 957, 44, 32, 8017, 956, 8118, 962>>, <<>> >> >>,   \* ὑμεῖς
    << <<8017, 956, 941, 964, 949, 961, 959, 962>>, << <<101, 117, 101, 114>>, <<8017, 956, 941, 964, 949, 961, 959, 962, 44, 32, 945, 44, 32, 959, 957>>, <<>> >> >>,   \* ὑμέτερος
    << <<8021, 960, 957, 959, 962>>, << <<83, 99, 104, 108, 97, 102>>, <<8021, 960, 957, 959, 962, 44, 32, 959, 965, 44, 32, 8001>>, <<>> >> >>,   \* ὕπνος
    << <<8017, 960, 972>>, << <<117, 110, 116, 101, 114, 32, 40, 43, 71, 101, 110, 46, 47, 68, 97, 116, 46, 47, 65, 107, 107, 46, 41>>, <<8017, 960, 972>>, <<>> >> >>,   \* ὑπό
    << <<8017, 960, 959, 955, 945, 956, 946, 940, 957, 969>>, << <<118, 101, 114, 109, 117, 116, 101, 110, 59, 32, 101, 110, 116, 103, 101, 103, 110, 101, 110>>, <<8017, 960, 959, 955, 945, 956, 946, 940, 957, 969>>, <<>> >> >>,   \* ὑπολαμβάνω
    << <<966, 945, 943, 957, 969>>, << <<122, 101, 105, 103, 101, 110, 59, 32, 101, 114, 115, 99, 104, 101, 105, 110, 101, 110>>, <<966, 945, 943, 957, 969, 44, 32, 966, 945, 957, 8182, 44, 32, 7956, 966, 951, 957, 945, 44, 32, 960, 941, 966, 951, 957, 945, 44, 32, 960, 941, 966, 945, 963, 956, 945, 953, 44, 32, 7952, 966, 940, 957, 951, 957>>, <<>> >> >>,   \* φαίνω
    << <<966, 945, 957, 949, 961, 972, 962>>, << <<115, 105, 99, 104, 116, 98, 97, 114, 44, 32, 100, 101, 117, 116, 108, 105, 99, 104>>, <<966, 945, 957, 949, 961, 972, 962, 44, 32, 940, 44, 32, 972, 957>>, <<>> >> >>,   \* φανερός
    << <<966, 940, 961, 956, 945, 954, 959, 957>>, << <<72, 101, 105, 108, 109, 105, 116, 116, 101, 108, 44, 32, 71, 105, 102, 116>>, <<966, 940, 961, 956, 945, 954, 959, 957, 44, 32, 959, 965, 44, 32, 964, 972>>, <<>> >> >>,   \* φάρμακον
    << <<966, 940, 963, 954, 969>>, << <<115, 97, 103, 101, 110, 44, 32, 98, 101, 104, 97, 117, 112, 116, 101, 110>>, <<966, 940, 963, 954, 969>>, <<>> >> >>,   \* φάσκω
    << <<966, 945, 8166, 955, 959, 962>>, << <<115, 99, 104, 108, 101, 99, 104, 116>>, <<966, 945, 8166, 955, 959, 962, 44, 32, 951, 44, 32, 959, 957>>, <<>> >> >>,   \* φαῦλος
    << <<966, 941, 961, 969>>, << <<116, 114, 97, 103, 101, 110, 44, 32, 98, 114, 105, 110, 103, 101, 110, 44, 32, 101, 114, 116, 114, 97, 103, 101, 110>>, <<966, 941, 961, 969, 44, 32, 959, 7988, 963, 969, 44, 32, 7972, 957, 949, 947, 954, 959, 957, 44, 32, 7952, 957, 942, 957, 959, 967, 945, 44, 32, 7952, 957, 942, 957, 949, 947, 956, 945, 953, 44, 32, 7968, 957, 941, 967, 952, 951, 957>>, <<>> >> >>,   \* φέρω
    << <<966, 949, 973, 947, 969>>, << <<102, 108, 105, 101, 104, 101, 110, 44, 32, 109, 101, 105, 100, 101, 110>>, <<966, 949, 973, 947, 969, 44, 32, 966, 949, 973, 958, 959, 956, 945, 953, 44, 32, 7956, 966, 965, 947, 959, 957, 44, 32, 960, 941, 966, 949, 965, 947, 945>>, <<>> >> >>,   \* φεύγω
    << <<966, 951, 956, 943>>, << <<115, 97, 103, 101, 110, 44, 32, 98, 101, 104, 97, 117, 112, 116, 101, 110>>, <<966, 951, 956, 943, 44, 32, 966, 942, 963, 969, 44, 32, 7956, 966, 951, 963, 945, 47, 7956, 966, 951, 957>>, <<>> >> >>,   \* φημί
    << <<966, 952, 959, 957, 941, 969>>, << <<98, 101, 110, 101, 105, 100, 101, 110>>, <<966, 952, 959, 957, 941, 969>>, <<>> >> >>,   \* φθονέω
    << <<966, 953, 955, 941, 969>>, << <<108, 105, 101, 98, 101, 110>>, <<966, 953, 955, 941, 969>>, <<>> >> >>,   \* φιλέω
    << <<966, 953, 955, 943, 945>>, << <<70, 114, 101, 117, 110, 100, 115, 99, 104, 97, 102, 116>>, <<966, 953, 955, 943, 945, 44, 32, 945, 962, 44, 32, 7969>>, <<>> >> >>,   \* φιλία
    << <<966, 943, 955, 959, 962>>, << <<108, 105, 101, 98, 59, 32, 70, 114, 101, 117, 110, 100>>, <<966, 943, 955, 959, 962, 44, 32, 951, 44, 32, 959, 957>>, <<>> >> >>,   \* φίλος
    << <<966, 953, 955, 959, 963, 959, 966, 943, 945>>, << <<80, 104, 105, 108, 111, 115, 111, 112, 104, 105, 101>>, <<966, 953, 955, 959, 963, 959, 966, 943, 945, 44, 32, 945, 962, 44, 32, 7969>>, <<>> >> >>,   \* φιλοσοφία
    << <<966, 953, 955, 972, 963, 959, 966, 959, 962>>, << <<80, 104, 105, 108, 111, 115, 111, 112, 104>>, <<966, 953, 955, 972, 963, 959, 966, 959, 962, 44, 32, 959, 965, 44, 32, 8001>>, <<>> >> >>,   \* φιλόσοφος
    << <<966, 959, 946, 941, 959, 956, 945, 953>>, << <<115, 105, 99, 104, 32, 102, 252, 114, 99, 104, 116, 101, 110>>, <<966, 959, 946, 941, 959, 956, 945, 953, 44, 32, 966, 959, 946, 942, 963, 959, 956, 945, 953, 44, 32, 7952, 966, 959, 946, 942, 952, 951, 957>>, <<>> >> >>,   \* φοβέομαι
    << <<966, 972, 946, 959, 962>>, << <<70, 117, 114, 99, 104, 116>>, <<966, 972, 946, 959, 962, 44, 32, 959, 965, 44, 32, 8001>>, <<>> >> >>,   \* φόβος
    << <<966, 959, 957, 949, 973, 969>>, << <<101, 114, 109, 111, 114, 100, 101, 110>>, <<966, 959, 957, 949, 973, 969>>, <<>> >> >>,   \* φονεύω
    << <<966, 961, 940, 950, 969>>, << <<115, 97, 103, 101, 110, 44, 32, 122, 101, 105, 103, 101, 110>>, <<966, 961, 940, 950, 969, 44, 32, 966, 961, 940, 963, 969, 44, 32, 7956, 966, 961, 945, 963, 945>>, <<>> >> >>,   \* φράζω
    << <<966, 961, 959, 957, 941, 969>>, << <<100, 101, 110, 107, 101, 110, 44, 32, 86, 101, 114, 115, 116, 97, 110, 100, 32, 104, 97, 98, 101, 110>>, <<966, 961, 959, 957, 941, 969>>, <<>> >> >>,   \* φρονέω
    << <<966, 961, 972, 957, 953, 956, 959, 962>>, << <<118, 101, 114, 115, 116, 228, 110, 100, 105, 103, 44, 32, 107, 108, 117, 103>>, <<966, 961, 972, 957, 953, 956, 959, 962, 44, 32, 959, 957>>, <<>> >> >>,   \* φρόνιμος
    << <<966, 961, 959, 957, 964, 943, 950, 969>>, << <<115, 105, 99, 104, 32, 107, 252, 109, 109, 101, 114, 110>>, <<966, 961, 959, 957, 964, 943, 950, 969>>, <<>> >> >>,   \* φροντίζω
    << <<966, 965, 955, 940, 964, 964, 969>>, << <<98, 101, 119, 97, 99, 104, 101, 110, 44, 32, 98, 101, 119, 97, 104, 114, 101, 110>>, <<966, 965, 955, 940, 964, 964, 969, 44, 32, 966, 965, 955, 940, 958, 969, 44, 32, 7952, 966, 973, 955, 945, 958, 945>>, <<>> >> >>,   \* φυλάττω
    << <<966, 973, 963, 953, 962>>, << <<78, 97, 116, 117, 114, 59, 32, 87, 101, 115, 101, 110>>, <<966, 973, 963, 953, 962, 44, 32, 949, 969, 962, 44, 32, 7969>>, <<>> >> >>,   \* φύσις
    << <<966, 969, 957, 942>>, << <<83, 116, 105, 109, 109, 101, 59, 32, 75, 108, 97, 110, 103>>, <<966, 969, 957, 942, 44, 32, 8134, 962, 44, 32, 7969>>, <<>> >> >>,   \* φωνή
    << <<966, 8182, 962>>, << <<76, 105, 99, 104, 116>>, <<966, 8182, 962, 44, 32, 966, 969, 964, 972, 962, 44, 32, 964, 972>>, <<>> >> >>,   \* φῶς
    << <<967, 945, 943, 961, 969>>, << <<115, 105, 99, 104, 32, 102, 114, 101, 117, 101, 110>>, <<967, 945, 943, 961, 969, 44, 32, 967, 945, 953, 961, 942, 963, 969, 44, 32, 954, 949, 967, 940, 961, 951, 954, 945, 44, 32, 7952, 967, 940, 961, 951, 957>>, <<967, 945, 8150, 961, 949, 32, 45, 32, 115, 101, 105, 32, 103, 101, 103, 114, 252, 223, 116, 33>> >> >>,   \* χαίρω
    << <<967, 945, 955, 949, 960, 972, 962>>, << <<115, 99, 104, 119, 101, 114, 44, 32, 115, 99, 104, 119, 105, 101, 114, 105, 103>>, <<967, 945, 955, 949, 960, 972, 962, 44, 32, 942, 44, 32, 972, 957>>, <<>> >> >>,   \* χαλεπός
    << <<967, 940, 961, 953, 962>>, << <<71, 101, 102, 228, 108, 108, 105, 103, 107, 101, 105, 116, 44, 32, 68, 97, 110, 107, 59, 32, 65, 110, 109, 117, 116>>, <<967, 940, 961, 953, 962, 44, 32, 953, 964, 959, 962, 44, 32, 7969>>, <<967, 940, 961, 953, 957, 32, 7936, 960, 959, 948, 943, 948, 969, 956, 953, 32, 45, 32, 100, 97, 110, 107, 101, 110>> >> >>,   \* χάρις
    << <<967, 949, 943, 961>>, << <<72, 97, 110, 100>>, <<967, 949, 943, 961, 44, 32, 967, 949, 953, 961, 972, 962, 44, 32, 7969>>, <<>> >> >>,   \* χείρ
    << <<967, 949, 943, 961, 969, 957>>, << <<115, 99, 104, 108, 101, 99, 104, 116, 101, 114>>, <<967, 949, 943, 961, 969, 957, 44, 32, 967, 949, 8150, 961, 959, 957>>, <<75, 111, 109, 112, 46, 32, 122, 117, 32, 954, 945, 954, 972, 962>> >> >>,   \* χείρων
    << <<967, 941, 969>>, << <<103, 105, 101, 223, 101, 110, 44, 32, 118, 101, 114, 103, 105, 101, 223, 101, 110>>, <<967, 941, 969>>, <<>> >> >>,   \* χέω
    << <<967, 959, 961, 972, 962>>, << <<84, 97, 110, 122, 44, 32, 82, 101, 105, 103, 101, 110>>, <<967, 959, 961, 972, 962, 44, 32, 959, 8166, 44, 32, 8001>>, <<>> >> >>,   \* χορός
    << <<967, 961, 940, 959, 956, 945, 953>>, << <<103, 101, 98, 114, 97, 117, 99, 104, 101, 110, 44, 32, 98, 101, 110, 117, 116, 122, 101, 110>>, <<967, 961, 940, 959, 956, 945, 953, 44, 32, 967, 961, 942, 963, 959, 956, 945, 953, 44, 32, 7952, 967, 961, 951, 963, 940, 956, 951, 957, 44, 32, 954, 941, 967, 961, 951, 956, 945, 953>>, <<>> >> >>,   \* χράομαι
    << <<967, 961, 942>>, << <<101, 115, 32, 105, 115, 116, 32, 110, 246, 116, 105, 103, 44, 32, 109, 97, 110, 32, 109, 117, 115, 115>>, <<967, 961, 942>>, <<>> >> >>,   \* χρή
    << <<967, 961, 8134, 956, 945>>, << <<83, 97, 99, 104, 101, 59, 32, 112, 108, 46, 32, 71, 101, 108, 100>>, <<967, 961, 8134, 956, 945, 44, 32, 945, 964, 959, 962, 44, 32, 964, 972>>, <<>> >> >>,   \* χρῆμα
    << <<967, 961, 942, 963, 953, 956, 959, 962>>, << <<110, 252, 116, 122, 108, 105, 99, 104, 44, 32, 98, 114, 97, 117, 99, 104, 98, 97, 114>>, <<967, 961, 942, 963, 953, 956, 959, 962, 44, 32, 951, 44, 32, 959, 957>>, <<>> >> >>,   \* χρήσιμος
    << <<967, 961, 972, 957, 959, 962>>, << <<90, 101, 105, 116>>, <<967, 961, 972, 957, 959, 962, 44, 32, 959, 965, 44, 32, 8001>>, <<>> >> >>,   \* χρόνος
    << <<967, 961, 965, 963, 972, 962>>, << <<71, 111, 108, 100>>, <<967, 961, 965, 963, 972, 962, 44, 32, 959, 8166, 44, 32, 8001>>, <<>> >> >>,   \* χρυσός
    << <<967, 974, 961, 945>>, << <<76, 97, 110, 100, 44, 32, 71, 101, 103, 101, 110, 100, 59, 32, 79, 114, 116>>, <<967, 974, 961, 945, 44, 32, 945, 962, 44, 32, 7969>>, <<>> >> >>,   \* χώρα
    << <<967, 969, 961, 941, 969>>, << <<119, 101, 105, 99, 104, 101, 110, 44, 32, 103, 101, 104, 101, 110>>, <<967, 969, 961, 941, 969>>, <<>> >> >>,   \* χωρέω
    << <<967, 969, 961, 943, 962>>, << <<103, 101, 116, 114, 101, 110, 110, 116, 32, 118, 111, 110, 44, 32, 111, 104, 110, 101>>, <<967, 969, 961, 943, 962>>, <<>> >> >>,   \* χωρίς
    << <<968, 949, 973, 948, 969>>, << <<116, 228, 117, 115, 99, 104, 101, 110, 59, 32, 108, 252, 103, 101, 110>>, <<968, 949, 973, 948, 969, 44, 32, 968, 949, 973, 963, 969, 44, 32, 7956, 968, 949, 965, 963, 945>>, <<>> >> >>,   \* ψεύδω
    << <<968, 965, 967, 942>>, << <<83, 101, 101, 108, 101, 44, 32, 76, 101, 98, 101, 110>>, <<968, 965, 967, 942, 44, 32, 8134, 962, 44, 32, 7969>>, <<>> >> >>,   \* ψυχή
    << <<968, 965, 967, 961, 972, 962>>, << <<107, 97, 108, 116>>, <<968, 965, 967, 961, 972, 962, 44, 32, 940, 44, 32, 972, 957>>, <<>> >> >>,   \* ψυχρός
    << <<8038>>, << <<111, 33>>, <<8038>>, <<>> >> >>,   \* ὦ
    << <<8038, 948, 949>>, << <<115, 111, 44, 32, 102, 111, 108, 103, 101, 110, 100, 101, 114, 109, 97, 223, 101, 110>>, <<8038, 948, 949>>, <<>> >> >>,   \* ὦδε
    << <<8096, 948, 942>>, << <<71, 101, 115, 97, 110, 103, 44, 32, 76, 105, 101, 100>>, <<8096, 948, 942, 44, 32, 8134, 962, 44, 32, 7969>>, <<>> >> >>,   \* ᾠδή
    << <<8037, 961, 945>>, << <<74, 97, 104, 114, 101, 115, 122, 101, 105, 116, 59, 32, 114, 101, 99, 104, 116, 101, 32, 90, 101, 105, 116>>, <<8037, 961, 945, 44, 32, 945, 962, 44, 32, 7969>>, <<>> >> >>,   \* ὥρα
    << <<8033, 962>>, << <<119, 105, 101, 44, 32, 100, 97, 115, 115, 59, 32, 100, 97, 109, 105, 116>>, <<8033, 962>>, <<>> >> >>,   \* ὡς
    << <<8037, 963, 960, 949, 961>>, << <<119, 105, 101, 44, 32, 103, 101, 114, 97, 100, 101, 32, 119, 105, 101>>, <<8037, 963, 960, 949, 961>>, <<>> >> >>,   \* ὥσπερ
    << <<8037, 963, 964, 949>>, << <<115, 111, 32, 100, 97, 115, 115, 59, 32, 100, 97, 104, 101, 114>>, <<8037, 963, 964, 949>>, <<>> >> >>,   \* ὥστε
    << <<8032, 966, 949, 955, 941, 969>>, << <<110, 252, 116, 122, 101, 110, 59, 32, 117, 110, 116, 101, 114, 115, 116, 252, 116, 122, 101, 110>>, <<8032, 966, 949, 955, 941, 969>>, <<>> >> >>,   \* ὠφελέω
    << <<8032, 966, 941, 955, 953, 956, 959, 962>>, << <<110, 252, 116, 122, 108, 105, 99, 104>>, <<8032, 966, 941, 955, 953, 956, 959, 962, 44, 32, 959, 957>>, <<>> >> >>   \* ὠφέλιμος
  >>

(***************************************************************************)
(* OmegaWortschatz: lookup                                                 *)
(***************************************************************************)

(* A Python dict built from <<key, value>> items in the given order: a     *)
(* later item replaces the value of an earlier one with the same key and   *)
(* keeps its place.  first holds the places of the items that inserted a   *)
(* key, in ascending order the order of iteration.                         *)
dict_of(items) ==
  [keys  |-> {items[i][1] : i \in DOMAIN items},
   items |-> items,
   first |-> {i \in DOMAIN items : \A j \in 1..(i - 1) : items[j][1] # items[i][1]},
   value |-> [k \in {items[i][1] : i \in DOMAIN items} |->
                items[Max({i \in DOMAIN items : items[i][1] = k})][2]]]

(* self.synonyme after _build_synonyme. *)
synonyme == dict_of(synonyme_literal)

(* self.vocab_dict after _build_dictionary. *)
vocab_dict == dict_of(vocab_literal)

(* accent_map.get(char, char) *)
accent_keys == {p[1] : p \in accent_map}
accent_get_kette(char) ==
  IF char = 8118 THEN 940
  ELSE IF char \in accent_keys
  THEN (CHOOSE p \in accent_map : p[1] = char)[2]
  ELSE char
accent_get(char) ==
  IF char \in accent_keys
  THEN (CHOOSE p \in accent_map : p[1] = char)[2]
  ELSE char

(* _remove_accents: maps every character through the accent map. *)
remove_accents(text) == [i \in 1..Len(text) |-> accent_get(text[i])]

(* self._remove_accents(key) for the items of a dict, place by place. *)
fold_all(items) == [i \in DOMAIN items |-> remove_accents(items[i][1])]
folded_keys == fold_all(vocab_literal)

(* Optional[List[str]]: None, or a list. *)
None == [some |-> FALSE, list |-> <<>>]
Some(l) == [some |-> TRUE, list |-> l]

(* " [Synonym zu " and "]" of the synonym annotation. *)
synonym_marker(hauptform) ==
  <<32, 91, 83, 121, 110, 111, 110, 121, 109, 32, 122, 117, 32>> \o hauptform \o <<93>>

(* The value of a return statement; exc names an exception that escaped. *)
Return(bedeutungen, gefunden, info) ==
  [bedeutungen |-> bedeutungen, gefunden |-> gefunden, info |-> info, exc |-> "none"]
Raise(name) ==
  [bedeutungen |-> None, gefunden |-> FALSE, info |-> <<>>, exc |-> name]

(* bedeutung, stammformen, zusatz = self.vocab_dict[key], split and       *)
(* returned with the annotation.                                           *)
treffer(e, marker) ==
  Return(Some(split_bedeutungen(e[1])), TRUE, strip(e[2] \o <<32>> \o e[3] \o marker))

(* The subscript self.vocab_dict[key]: a missing key raises. *)
lookup(d, key, marker) ==
  IF key \in d.keys THEN treffer(d.value[key], marker) ELSE Raise("KeyError")

synonym_guard_fehlt(d, hauptform) == TRUE
(* The synonym tier looks the main form up only if it is a key. *)
synonym_guard(d, hauptform) == hauptform \in d.keys

(* The accent-insensitive scan over d, whose folded keys are folded: the   *)
(* places of the keys whose folded form equals the folded query.           *)
fuzzy_hits(d, folded, suchbegriff_no_accent) ==
  {i \in d.first : folded[i] = suchbegriff_no_accent}

fuzzy_key_letzter(d, hits) == d.items[Max(hits)][1]
(* The loop returns at the first such key in the order of iteration. *)
fuzzy_key(d, hits) == d.items[Min(hits)][1]

(* The three tiers of finde_bedeutung over the dict d and the synonyms syn. *)
finde_synonym_zuerst(d, syn, folded, suchbegriff, hits) ==
  IF suchbegriff \in syn.keys /\ synonym_guard(d, syn.value[suchbegriff])
  THEN lookup(d, syn.value[suchbegriff], synonym_marker(syn.value[suchbegriff]))
  ELSE IF suchbegriff \in d.keys
  THEN lookup(d, suchbegriff, <<>>)
  ELSE IF hits # {}
  THEN lookup(d, fuzzy_key(d, hits), <<>>)
  ELSE Return(None, FALSE, <<>>)
finde(d, syn, folded, suchbegriff, hits) ==
  IF suchbegriff \in d.keys
  THEN lookup(d, suchbegriff, <<>>)
  ELSE IF suchbegriff \in syn.keys /\ synonym_guard(d, syn.value[suchbegriff])
  THEN lookup(d, syn.value[suchbegriff], synonym_marker(syn.value[suchbegriff]))
  ELSE IF hits # {}
  THEN lookup(d, fuzzy_key(d, hits), <<>>)
  ELSE Return(None, FALSE, <<>>)

(* finde_bedeutung: suchbegriff = griechisch.strip(), then the tiers. *)
finde_bedeutung(griechisch) ==
  finde(vocab_dict, synonyme, folded_keys, strip(griechisch),
        fuzzy_hits(vocab_dict, folded_keys, remove_accents(strip(griechisch))))

(***************************************************************************)
(* VokabelPDFParser                                                        *)
(***************************************************************************)

(* self.artikel *)
artikel ==
  { <<8001>>, <<7969>>, <<964, 972>>, <<964, 8056>>, <<959, 7985>>, <<945, 7985>>,
    <<964, 940>>, <<964, 8048>>,                       \* ὁ ἡ τό τὸ οἱ αἱ τά τὰ
    <<964, 8056, 957>>, <<964, 8052, 957>>, <<964, 959, 8166>>, <<964, 8134, 962>>,
    <<964, 8183>>, <<964, 8135>>, <<964, 959, 973, 962>>, <<964, 940, 962>> }
                                                       \* τὸν τὴν τοῦ τῆς τῷ τῇ τούς τάς

(* The character class of greek_pattern: U+0370..U+03FF and U+1F00..U+1FFF. *)
IsGreek(c) == c \in (880..1023) \cup (7936..8191)

(* \d, for the ASCII digits (the only digits the modelled lines contain). *)
IsDigit(c) == c \in 48..57

(* re.findall(greek_pattern, s): the maximal runs of Greek characters. *)
RECURSIVE findall_greek(_)
findall_greek(s) ==
  LET greek == {i \in 1..Len(s) : IsGreek(s[i])}
  IN  IF greek = {} THEN <<>>
      ELSE LET b == Min(greek)
               other == {i \in b..Len(s) : ~IsGreek(s[i])}
               e == IF other = {} THEN Len(s) ELSE Min(other) - 1
           IN  <<SubSeq(s, b, e)>> \o findall_greek(SubSeq(s, e + 1, Len(s)))

(* re.match(r'^(\d+)', line): num_match.end(), 0 when there is no match. *)
num_match_end(line) ==
  LET other == {i \in 1..Len(line) : ~IsDigit(line[i])}
  IN  IF other = {} THEN Len(line) ELSE Min(other) - 1

(* int(num_match.group(1)) *)
RECURSIVE int(_)
int(digits) ==
  IF digits = <<>> THEN 0
  ELSE 10 * int(SubSeq(digits, 1, Len(digits) - 1)) + (digits[Len(digits)] - 48)

(* The dataclass constructor, with its defaults for bedeutungen, gefunden. *)
VokabelEintrag(main_num, sub_num, griechisch, stammformen, original_zeile) ==
  [main_num |-> main_num, sub_num |-> sub_num, griechisch |-> griechisch,
   stammformen |-> stammformen, bedeutungen |-> <<>>, gefunden |-> FALSE,
   original_zeile |-> original_zeile]

mit_bedeutung_immer_gefunden(eintrag, r) ==
  [eintrag EXCEPT
     !.bedeutungen = IF r.bedeutungen.some /\ r.bedeutungen.list # <<>>
                     THEN r.bedeutungen.list ELSE <<>>,
     !.gefunden = TRUE]
(* eintrag.bedeutungen = bedeutungen if bedeutungen else []                *)
(* eintrag.gefunden = gefunden                                             *)
mit_bedeutung(eintrag, r) ==
  [eintrag EXCEPT
     !.bedeutungen = IF r.bedeutungen.some /\ r.bedeutungen.list # <<>>
                     THEN r.bedeutungen.list ELSE <<>>,
     !.gefunden = r.gefunden]

hauptwort_erstes(greek_words) ==
  IF greek_words # <<>> THEN greek_words[1] ELSE <<>>
hauptwort_ohne_ersatz(greek_words) ==
  LET kein_artikel == {i \in 1..Len(greek_words) : greek_words[i] \notin artikel}
  IN  IF kein_artikel # {} THEN greek_words[Min(kein_artikel)] ELSE <<>>
(* The choice of hauptwort among greek_words, as stored in griechisch      *)
(* (hauptwort if hauptwort else ""): the first word that is no article,    *)
(* else the first word, else "".                                           *)
hauptwort(greek_words) ==
  LET kein_artikel == {i \in 1..Len(greek_words) : greek_words[i] \notin artikel}
  IN  IF kein_artikel # {} THEN greek_words[Min(kein_artikel)]
      ELSE IF greek_words # <<>> THEN greek_words[1]
      ELSE <<>>

(***************************************************************************)
(* Inputs                                                                  *)
(***************************************************************************)

(* The most lines the pages of one PDF hold together, and the most pages. *)
MaxLines == 4
MaxPages == 2

(* The raw lines page.extract_text() may deliver. *)
Zeilen ==
  { <<49, 8001, 32, 7936, 957, 942, 961, 32, 964, 959, 8166, 32, 7936, 957, 948, 961, 972, 962>>,
                                                       \* "1ὁ ἀνήρ τοῦ ἀνδρός"
    <<51, 32, 7936, 957, 948, 961, 972, 962>>,         \* "3 ἀνδρός"
    <<32, 32, 945, 957, 952, 961, 969, 960, 959, 962, 32, 77, 101, 110, 115, 99, 104>>,
                                                       \* "  ανθρωπος Mensch"
    <<50, 32, 8001, 32, 7969>>,                        \* "2 ὁ ἡ"
    <<97, 98, 99>>,                                    \* "abc"
    <<32, 32, 32>>,                                    \* "   "
    <<48, 32, 8038>>,                                  \* "0 ὦ"
    <<49, 50>> }                                       \* "12"

(* The words finde_bedeutung is asked about on its own: every key, every   *)
(* synonym and synonym target, every folded key, words that match nothing, *)
(* and the synonyms with surrounding whitespace.                           *)
MaxPad == 1
Pad(n) == [i \in 1..n |-> 32]
Synonyme == {synonyme_literal[i][1] : i \in DOMAIN synonyme_literal}
Suchwoerter ==
  vocab_dict.keys \cup Synonyme
    \cup {synonyme_literal[i][2] : i \in DOMAIN synonyme_literal}
    \cup {folded_keys[i] : i \in DOMAIN folded_keys}
    \cup {remove_accents(a) : a \in Synonyme}
    \cup {<<958, 958, 958, 958>>, <<>>, <<964, 959, 8166>>}     \* ξξξξ, "", τοῦ
    \cup {Pad(n) \o a \o Pad(m) : a \in Synonyme, n \in 0..MaxPad, m \in 0..MaxPad}

(* self.omega.finde_bedeutung(...) as the parser calls it.  The answers   *)
(* for the words of the modelled lines are computed once and kept.         *)
Woerter ==
  UNION {{findall_greek(l)[i] : i \in 1..Len(findall_greek(l))} : l \in Zeilen}
omega == [w \in Woerter |-> finde_bedeutung(w)]
omega_finde_bedeutung(w) == omega[w]

(* The sentinel current_main starts from: no numbered line seen yet. *)
KeinHaupt == 0

(* A numbered line sets current_main and restarts the sub counter,         *)
(* whatever next_sub was.                                                  *)
nach_nummer_ohne_neustart(num, next_sub_alt) ==
  [current_main |-> num, next_sub |-> next_sub_alt]
nach_nummer(num, next_sub_alt) == [current_main |-> num, next_sub |-> 0]

seitenanfang_fortgesetzt(cm, ns) == [current_main |-> cm, next_sub |-> ns]
(* _parse_text is called anew for every page and starts with its locals    *)
(* as they are initialised, whatever the call for the page before left.    *)
seitenanfang(cm, ns) == [current_main |-> KeinHaupt, next_sub |-> 0]

(* What one iteration of the loop leaves: the two locals, the entries it  *)
(* has appended (none or one), and the exception that escaped, if any.     *)
Schritt(cm, ns, neu, exc) ==
  [current_main |-> cm, next_sub |-> ns, neu |-> neu, exc |-> exc]

gesucht_doppelt(cm, ns, eintrag, r) ==
  Schritt(cm, ns, <<mit_bedeutung(eintrag, r), mit_bedeutung(eintrag, r)>>, r.exc)
(* The entry is completed with the answer r of finde_bedeutung and         *)
(* appended.                                                               *)
gesucht(cm, ns, eintrag, r) == Schritt(cm, ns, <<mit_bedeutung(eintrag, r)>>, r.exc)

(* The branch of a line with a leading number: the entry is appended with  *)
(* or, if no Greek word was found, without a lookup.                       *)
haupteintrag_nur_mit_wort(nach, eintrag) ==
  IF eintrag.griechisch # <<>>
  THEN gesucht(nach.current_main, nach.next_sub, eintrag,
               omega_finde_bedeutung(eintrag.griechisch))
  ELSE Schritt(nach.current_main, nach.next_sub, <<>>, "none")
haupteintrag(nach, eintrag) ==
  IF eintrag.griechisch # <<>>
  THEN gesucht(nach.current_main, nach.next_sub, eintrag,
               omega_finde_bedeutung(eintrag.griechisch))
  ELSE Schritt(nach.current_main, nach.next_sub, <<eintrag>>, "none")
hauptzeile(ns, line, n) ==
  haupteintrag(nach_nummer(int(SubSeq(line, 1, n)), ns),
               VokabelEintrag(int(SubSeq(line, 1, n)), 0,
                              hauptwort(findall_greek(strip(SubSeq(line, n + 1, Len(line))))),
                              strip(SubSeq(line, n + 1, Len(line))), line))

(* The sub number of the next continuation entry. *)
naechste_sub(ns) == ns + 1

unterzeile_ohne_haupt(cm, ns, line, greek_words) ==
  IF greek_words = <<>> THEN Schritt(cm, ns, <<>>, "none")
  ELSE gesucht(cm, naechste_sub(ns),
               VokabelEintrag(cm, naechste_sub(ns), greek_words[1], line, line),
               omega_finde_bedeutung(greek_words[1]))
unterzeile_zaehlt_verworfene(cm, ns, line, greek_words) ==
  IF cm = KeinHaupt THEN Schritt(cm, ns, <<>>, "none")
  ELSE IF greek_words = <<>> THEN Schritt(cm, naechste_sub(ns), <<>>, "none")
  ELSE gesucht(cm, naechste_sub(ns),
               VokabelEintrag(cm, naechste_sub(ns), greek_words[1], line, line),
               omega_finde_bedeutung(greek_words[1]))
(* The branch of a line without a leading number. *)
unterzeile(cm, ns, line, greek_words) ==
  IF cm = KeinHaupt THEN Schritt(cm, ns, <<>>, "none")
  ELSE IF greek_words = <<>> THEN Schritt(cm, ns, <<>>, "none")
  ELSE gesucht(cm, naechste_sub(ns),
               VokabelEintrag(cm, naechste_sub(ns), greek_words[1], line, line),
               omega_finde_bedeutung(greek_words[1]))

zeile_leer_beendet(cm, ns, line) ==
  IF line = <<>> THEN Schritt(KeinHaupt, 0, <<>>, "none")
  ELSE IF num_match_end(line) > 0 THEN hauptzeile(ns, line, num_match_end(line))
  ELSE unterzeile(cm, ns, line, findall_greek(line))
(* One iteration of the loop of _parse_text over the trimmed line. *)
zeile(cm, ns, line) ==
  IF line = <<>> THEN Schritt(cm, ns, <<>>, "none")
  ELSE IF num_match_end(line) > 0 THEN hauptzeile(ns, line, num_match_end(line))
  ELSE unterzeile(cm, ns, line, findall_greek(line))
parse_line(cm, ns, raw_line) == zeile(cm, ns, strip(raw_line))

sort_key_vertauscht(x) == <<x.sub_num, x.main_num>>
(* key=lambda x: (x.main_num, x.sub_num) *)
sort_key(x) == <<x.main_num, x.sub_num>>

key_less_nur_haupt(a, b) == a[1] < b[1]
(* Tuple comparison a < b of two sort keys. *)
key_less(a, b) == a[1] < b[1] \/ (a[1] = b[1] /\ a[2] < b[2])

einfuege_stelle_vor_gleichen(t, x) ==
  LET not_less == {i \in 1..Len(t) : ~key_less(sort_key(t[i]), sort_key(x))}
  IN  IF not_less = {} THEN Len(t) + 1 ELSE Min(not_less)
(* list.sort(key=...) is stable: every element goes behind the elements    *)
(* that do not compare greater.  The place x takes in the sorted t.        *)
einfuege_stelle(t, x) ==
  LET greater == {i \in 1..Len(t) : key_less(sort_key(x), sort_key(t[i]))}
  IN  IF greater = {} THEN Len(t) + 1 ELSE Min(greater)

(* list.sort(key=...) *)
RECURSIVE sort(_)
sort(s) ==
  IF s = <<>> THEN <<>>
  ELSE LET t == sort(SubSeq(s, 1, Len(s) - 1))
           x == s[Len(s)]
           p == einfuege_stelle(t, x)
       IN  SubSeq(t, 1, p - 1) \o <<x>> \o SubSeq(t, p, Len(t))

(* _parse_text(text) as a whole: the loop over the lines of one page,      *)
(* from the locals as initialised.  No lookup of a word of the modelled    *)
(* lines raises, so the loop always runs to its end.                       *)
RECURSIVE parse_rest(_, _, _, _)
parse_rest(zeilen, cm, ns, res) ==
  IF zeilen = <<>> THEN res
  ELSE \* one iteration, then the rest of the lines
       LET s == parse_line(cm, ns, zeilen[1])
       IN  parse_rest(Tail(zeilen), s.current_main, s.next_sub, res \o s.neu)
parse_text(zeilen) == parse_rest(zeilen, KeinHaupt, 0, <<>>)

(* parse_pdf(pdf_file) as a whole: extend over the pages, sort, return. *)
RECURSIVE extend_all(_)
extend_all(seiten) ==
  IF seiten = <<>> THEN <<>>
  ELSE parse_text(seiten[1]) \o extend_all(Tail(seiten))
parse_pdf(seiten) == sort(extend_all(seiten))

(***************************************************************************)
(* main: statistics, correction loop, export; PDFGenerator                 *)
(***************************************************************************)

(* str(n) for n >= 0 *)
RECURSIVE str(_)
str(n) == IF n < 10 THEN <<48 + n>> ELSE str(n \div 10) \o <<48 + (n % 10)>>

(* gefunden_haupt/len(haupt_eintraege): the division raises when no entry  *)
(* has sub_num 0.                                                          *)
statistik(liste) ==
  IF \E i \in DOMAIN liste : liste[i].sub_num = 0 THEN "none" ELSE "ZeroDivisionError"

(* aktuell = '; '.join(e.bedeutungen) if e.bedeutungen else '' *)
aktuell(e) == IF e.bedeutungen # <<>> THEN join(e.bedeutungen) ELSE <<>>

(* The key of the text area of e; Streamlit raises when a key is used a    *)
(* second time in one run of the script.                                   *)
widget_key(e) ==
  IF e.sub_num = 0
  THEN [art |-> "main", main_num |-> e.main_num, sub_num |-> 0]
  ELSE [art |-> "sub", main_num |-> e.main_num, sub_num |-> e.sub_num]

korrigiere_ohne_gefunden(e, text) ==
  IF text # <<>> /\ text # aktuell(e)
  THEN [e EXCEPT !.bedeutungen = split_bedeutungen(text)]
  ELSE e
korrigiere_auch_stammformen(e, text) ==
  IF text # <<>> /\ text # aktuell(e)
  THEN [e EXCEPT !.bedeutungen = split_bedeutungen(text), !.gefunden = TRUE,
                 !.stammformen = text]
  ELSE e
(* if neu and neu != aktuell: e.bedeutungen = [...]; e.gefunden = True *)
korrigiere(e, text) ==
  IF text # <<>> /\ text # aktuell(e)
  THEN [e EXCEPT !.bedeutungen = split_bedeutungen(text), !.gefunden = TRUE]
  ELSE e

(* "⚠️ nicht gefunden" *)
nicht_gefunden ==
  <<9888, 65039, 32, 110, 105, 99, 104, 116, 32, 103, 101, 102, 117, 110, 100, 101, 110>>

(* The header row of the table. *)
kopfzeile ==
  << <<78, 114, 46>>,                                                  \* "Nr."
     <<71, 114, 105, 101, 99, 104, 105, 115, 99, 104>>,                \* "Griechisch"
     <<83, 116, 97, 109, 109, 102, 111, 114, 109, 101, 110, 32, 40, 80, 68, 70, 41>>,
                                                                       \* "Stammformen (PDF)"
     <<66, 101, 100, 101, 117, 116, 117, 110, 103, 101, 110>> >>       \* "Bedeutungen"

tabellenzeile_immer_nummer(e) ==
  << str(e.main_num),
     IF e.sub_num > 0 THEN <<32, 32>> \o e.griechisch ELSE e.griechisch,
     e.stammformen,
     IF e.bedeutungen # <<>> THEN join(e.bedeutungen) ELSE nicht_gefunden >>
(* The row [nr, griech, stamm, bedeutung] of one entry. *)
tabellenzeile(e) ==
  << IF e.sub_num = 0 THEN str(e.main_num) ELSE <<>>,
     IF e.sub_num > 0 THEN <<32, 32>> \o e.griechisch ELSE e.griechisch,
     e.stammformen,
     IF e.bedeutungen # <<>> THEN join(e.bedeutungen) ELSE nicht_gefunden >>

(* erstelle_pdf: the data of the table, header first. *)
erstelle_pdf(liste) == <<kopfzeile>> \o [i \in DOMAIN liste |-> tabellenzeile(liste[i])]

(***************************************************************************)
(* State                                                                   *)
(***************************************************************************)

VARIABLES
  pc,            \* "parse": parse_pdf is in its loop; "done": it has returned;
                 \* "raised": an exception left it; "finde": a single lookup
  seite,         \* the number of the page being parsed
  lines,         \* the lines of this page the loop of _parse_text has consumed
  gelesen,       \* the number of lines consumed on all pages
  current_main,  \* _parse_text: current_main
  next_sub,      \* _parse_text: next_sub
  result,        \* _parse_text: result
  eintraege,     \* parse_pdf: eintraege
  suchwort,      \* the argument of a single call of finde_bedeutung
  ergebnis,      \* what that call returned: <<>> before, <<r>> after
  korrigierte,   \* main: korrigierte
  neu,           \* main: neu, the content of the text area read last
  data           \* erstelle_pdf: data, <<>> before the export

vars == <<pc, seite, lines, gelesen, current_main, next_sub, result, eintraege,
          suchwort, ergebnis, korrigierte, neu, data>>

(* The variables of main, and their values while main has not got there. *)
main_vars == <<korrigierte, neu, data>>
main_ruht == korrigierte = <<>> /\ neu = <<>> /\ data = <<>>

(* parse_pdf has opened the file and _parse_text starts on the first page. *)
Init ==
  /\ pc = "parse"
  /\ seite = 1
  /\ lines = <<>>
  /\ gelesen = 0
  /\ current_main = KeinHaupt
  /\ next_sub = 0
  /\ result = <<>>
  /\ eintraege = <<>>
  /\ suchwort = <<>>
  /\ ergebnis = <<>>
  /\ main_ruht

(* _parse_text handles the next line of the page. *)
ParseLine ==
  /\ pc = "parse"
  /\ gelesen < MaxLines
  /\ \E raw_line \in Zeilen :
       \E s \in {parse_line(current_main, next_sub, raw_line)} :
           /\ lines' = Append(lines, raw_line)
           /\ gelesen' = gelesen + 1
           /\ IF s.exc # "none"
              THEN /\ pc' = "raised"
                   /\ UNCHANGED <<current_main, next_sub, result>>
              ELSE /\ pc' = pc
                   /\ current_main' = s.current_main
                   /\ next_sub' = s.next_sub
                   /\ result' = result \o s.neu
  /\ UNCHANGED <<seite, eintraege, suchwort, ergebnis>>
  /\ UNCHANGED main_vars

(* The page is finished: eintraege.extend(result), and _parse_text starts  *)
(* afresh on the next page.                                                *)
NextPage ==
  /\ pc = "parse"
  /\ seite < MaxPages
  /\ eintraege' = eintraege \o result
  /\ seite' = seite + 1
  /\ lines' = <<>>
  /\ current_main' = seitenanfang(current_main, next_sub).current_main
  /\ next_sub' = seitenanfang(current_main, next_sub).next_sub
  /\ result' = <<>>
  /\ UNCHANGED <<pc, gelesen, suchwort, ergebnis>>
  /\ UNCHANGED main_vars

(* The last page is finished: extend, sort, return. *)
Return_parse_pdf ==
  /\ pc = "parse"
  /\ eintraege' = sort(eintraege \o result)
  /\ pc' = "done"
  /\ UNCHANGED <<seite, lines, gelesen, current_main, next_sub, result, suchwort, ergebnis>>
  /\ UNCHANGED main_vars

Next == ParseLine \/ NextPage \/ Return_parse_pdf

Spec == Init /\ [][Next]_vars

(* A single call of finde_bedeutung on any of the words. *)
InitFinde ==
  /\ pc = "finde"
  /\ seite = 1
  /\ lines = <<>>
  /\ gelesen = 0
  /\ current_main = KeinHaupt
  /\ next_sub = 0
  /\ result = <<>>
  /\ eintraege = <<>>
  /\ suchwort \in Suchwoerter
  /\ ergebnis = <<>>
  /\ main_ruht

Finde ==
  /\ pc = "finde"
  /\ ergebnis = <<>>
  /\ ergebnis' = <<finde_bedeutung(suchwort)>>
  /\ UNCHANGED <<pc, seite, lines, gelesen, current_main, next_sub, result, eintraege, suchwort>>
  /\ UNCHANGED main_vars

NextFinde == Finde

SpecFinde == InitFinde /\ [][NextFinde]_vars

(* _remove_accents on its own: called with any of the words above or with  *)
(* any single character of the two Greek blocks.                           *)
Texte == Suchwoerter \cup {<<c>> : c \in (880..1023) \cup (7936..8191)}

InitFalte ==
  /\ pc = "falte"
  /\ seite = 1
  /\ lines = <<>>
  /\ gelesen = 0
  /\ current_main = KeinHaupt
  /\ next_sub = 0
  /\ result = <<>>
  /\ eintraege = <<>>
  /\ suchwort \in Texte
  /\ ergebnis = <<>>
  /\ main_ruht

Falte ==
  /\ pc = "falte"
  /\ ergebnis = <<>>
  /\ ergebnis' = <<remove_accents(suchwort)>>
  /\ UNCHANGED <<pc, seite, lines, gelesen, current_main, next_sub, result, eintraege, suchwort>>
  /\ UNCHANGED main_vars

NextFalte == Falte

SpecFalte == InitFalte /\ [][NextFalte]_vars

(* The sort of parse_pdf on its own: eintraege.sort(...) on any list of    *)
(* up to MaxSort entries, and once more on what it has left.               *)
MaxSort == 3
Sortierbar ==
  {VokabelEintrag(m, u, g, <<>>, <<>>) : m \in 1..2, u \in 0..1, g \in {<<945>>, <<946>>}}
Folgen(n) == UNION {[1..k -> Sortierbar] : k \in 0..n}

InitSort ==
  /\ pc = "sort"
  /\ seite = 1
  /\ lines = <<>>
  /\ gelesen = 0
  /\ current_main = KeinHaupt
  /\ next_sub = 0
  /\ result = <<>>
  /\ eintraege \in Folgen(MaxSort)
  /\ suchwort = <<>>
  /\ ergebnis = <<>>
  /\ main_ruht

Sortiere ==
  /\ pc \in {"sort", "sorted"}
  /\ eintraege' = sort(eintraege)
  /\ pc' = IF pc = "sort" THEN "sorted" ELSE "resorted"
  /\ UNCHANGED <<seite, lines, gelesen, current_main, next_sub, result, suchwort, ergebnis>>
  /\ UNCHANGED main_vars

NextSort == Sortiere

SpecSort == InitSort /\ [][NextSort]_vars

(* One run of main on an uploaded PDF of one page with up to MaxZeilen      *)
(* lines: parse, statistics, the correction loop over the entries with     *)
(* whatever the text areas hold, and the PDF export of korrigierte.        *)
MaxZeilen == 2
Dokumente == {<<text>> : text \in UNION {[1..n -> Zeilen] : n \in 0..MaxZeilen}}

(* What the text area of e may hold: its default, nothing, a blank, or a   *)
(* text the user has typed.                                                *)
Eingaben(e) ==
  { aktuell(e), <<>>, <<32>>,
    <<72, 101, 108, 100, 59, 32, 77, 97, 110, 110, 32>> }       \* "Held; Mann "

InitMain ==
  /\ pc = "upload"
  /\ seite = 1
  /\ lines = <<>>
  /\ gelesen = 0
  /\ current_main = KeinHaupt
  /\ next_sub = 0
  /\ result = <<>>
  /\ eintraege = <<>>
  /\ suchwort = <<>>
  /\ ergebnis = <<>>
  /\ main_ruht

(* eintraege = parser.parse_pdf(uploaded_file); if eintraege: statistics. *)
Analysiere ==
  /\ pc = "upload"
  /\ \E dokument \in Dokumente :
       \E liste \in {parse_pdf(dokument)} :
         /\ eintraege' = liste
         /\ pc' = IF liste = <<>> THEN "leer"
                  ELSE IF statistik(liste) # "none" THEN "raised"
                  ELSE "korrektur"
  /\ UNCHANGED <<seite, lines, gelesen, current_main, next_sub, result, suchwort, ergebnis>>
  /\ UNCHANGED main_vars

(* One iteration of 'for e in eintraege': the text area of e is created    *)
(* and read, e is corrected in place and appended to korrigierte.          *)
Korrigiere ==
  /\ pc = "korrektur"
  /\ Len(korrigierte) < Len(eintraege)
  /\ \E k \in {Len(korrigierte) + 1} :
       IF \E j \in 1..(k - 1) : widget_key(eintraege[j]) = widget_key(eintraege[k])
       THEN /\ pc' = "raised"
            /\ UNCHANGED <<eintraege, korrigierte, neu>>
       ELSE \E text \in Eingaben(eintraege[k]) :
              \E e \in {korrigiere(eintraege[k], text)} :
                /\ neu' = text
                /\ eintraege' = [eintraege EXCEPT ![k] = e]
                /\ korrigierte' = Append(korrigierte, e)
                /\ pc' = pc
  /\ UNCHANGED <<seite, lines, gelesen, current_main, next_sub, result, suchwort, ergebnis, data>>

(* The loop is over and the PDF button is pressed: erstelle_pdf(korrigierte). *)
Exportiere ==
  /\ pc = "korrektur"
  /\ Len(korrigierte) = Len(eintraege)
  /\ data' = erstelle_pdf(korrigierte)
  /\ pc' = "export"
  /\ UNCHANGED <<seite, lines, gelesen, current_main, next_sub, result, eintraege,
                 suchwort, ergebnis, korrigierte, neu>>

NextMain == Analysiere \/ Korrigiere \/ Exportiere

SpecMain == InitMain /\ [][NextMain]_vars

(***************************************************************************)
(* What the properties speak of, stated without the code's own loops       *)
(***************************************************************************)

(* The n-th smallest element of a set of numbers. *)
Nth(S, n) == CHOOSE x \in S : Cardinality({y \in S : y < x}) = n - 1

(* The glosses of a gloss text: the pieces between its semicolons, trimmed. *)
GlossenVon(text) ==
  LET grenzen == {0, Len(text) + 1} \cup {i \in 1..Len(text) : text[i] = 59}
  IN  [n \in 1..(Cardinality(grenzen) - 1) |->
         strip(SubSeq(text, Nth(grenzen, n) + 1, Nth(grenzen, n + 1) - 1))]

(* The <<bedeutung, stammformen, zusatz>> the static table defines for k. *)
Eintrag(k) ==
  vocab_literal[CHOOSE i \in DOMAIN vocab_literal : vocab_literal[i][1] = k][2]

(* Principal parts followed by the note. *)
Annotation(e) == IF e[3] = <<>> THEN e[2] ELSE e[2] \o <<32>> \o e[3]

(* "[Synonym zu c]" *)
Umleitung(c) == <<91, 83, 121, 110, 111, 110, 121, 109, 32, 122, 117, 32>> \o c \o <<93>>

Enthaelt(s, t) == \E o \in 0..(Len(s) - Len(t)) : SubSeq(s, o + 1, o + Len(t)) = t
EndetMit(s, t) == Len(s) >= Len(t) /\ SubSeq(s, Len(s) - Len(t) + 1, Len(s)) = t

(* The entries whose key folds to the same string as q. *)
FaltTreffer(q) ==
  {i \in DOMAIN vocab_literal : remove_accents(vocab_literal[i][1]) = remove_accents(q)}

(* q is resolved by the synonym table. *)
SynonymTrifft(q) == q \in synonyme.keys /\ synonyme.value[q] \in vocab_dict.keys

(* None of the three tiers matches q. *)
OhneTreffer(q) == q \notin vocab_dict.keys /\ ~SynonymTrifft(q) /\ FaltTreffer(q) = {}

(* The single call has returned. *)
Gefragt == pc = "finde" /\ ergebnis # <<>>

(***************************************************************************)
(* Properties of finde_bedeutung (SpecFinde)                               *)
(***************************************************************************)

(* C4: for every key k of the dictionary, finde_bedeutung(k) returns       *)
(* found = true, the glosses obtained by splitting k's gloss text on ';'   *)
(* and trimming each piece, and as annotation k's principal parts          *)
(* followed by its note.                                                   *)
C4_ExactMatch ==
  (Gefragt /\ suchwort \in vocab_dict.keys) =>
    LET r == ergebnis[1]
        e == Eintrag(suchwort)
    IN  /\ r.exc = "none"
        /\ r.gefunden
        /\ r.bedeutungen = Some(GlossenVon(e[1]))
        /\ r.info = Annotation(e)

(* A key with several glosses and a note has been looked up. *)
C4_Witness ==
  /\ Gefragt
  /\ suchwort \in vocab_dict.keys
  /\ Len(ergebnis[1].bedeutungen.list) >= 2
  /\ Eintrag(suchwort)[3] # <<>>

(* C5: for every alternate spelling a of the synonym table with canonical  *)
(* headword c, finde_bedeutung(a) returns found = true with the glosses of *)
(* finde_bedeutung(c), and its annotation carries the redirection marker.  *)
C5_SynonymRedirect ==
  (Gefragt /\ suchwort \in synonyme.keys) =>
    LET r == ergebnis[1]
        c == synonyme.value[suchwort]
    IN  /\ r.gefunden
        /\ r.bedeutungen = finde_bedeutung(c).bedeutungen
        /\ Enthaelt(r.info, Umleitung(c))

(* C6: a query that is no key and is not resolved by the synonym table,    *)
(* but whose folded form equals that of some key, is found with the        *)
(* glosses of the first such key in the dictionary's insertion order.      *)
C6_FoldedScan ==
  LET q == strip(suchwort)
  IN  (Gefragt /\ q \notin vocab_dict.keys /\ ~SynonymTrifft(q) /\ FaltTreffer(q) # {}) =>
        LET r == ergebnis[1]
            erster == vocab_literal[Min(FaltTreffer(q))][2]
        IN  /\ r.gefunden
            /\ r.bedeutungen = Some(GlossenVon(erster[1]))

(* A query that two keys fold to has been answered by the scan. *)
C6_Witness ==
  LET q == strip(suchwort)
  IN  /\ Gefragt
      /\ q \notin vocab_dict.keys /\ ~SynonymTrifft(q)
      /\ Cardinality(FaltTreffer(q)) >= 2
      /\ ergebnis[1].gefunden

(* C7 as stated: a query that matches none of the three tiers returns      *)
(* found = false with an empty gloss list and an empty annotation, and no  *)
(* query raises an error.                                                  *)
C7_EmptyList ==
  Gefragt =>
    LET r == ergebnis[1]
    IN  /\ r.exc = "none"
        /\ OhneTreffer(strip(suchwort)) =>
              (~r.gefunden /\ r.bedeutungen = Some(<<>>) /\ r.info = <<>>)

(* C7 amended: a query that matches none of the three tiers returns        *)
(* found = false, None in place of the gloss list and an empty annotation, *)
(* and no query raises an error.                                           *)
C7_Unmatched ==
  Gefragt =>
    LET r == ergebnis[1]
    IN  /\ r.exc = "none"
        /\ OhneTreffer(strip(suchwort)) =>
              (~r.gefunden /\ r.bedeutungen = None /\ r.info = <<>>)

(* A word that matches nothing has been looked up. *)
C7_Witness ==
  /\ Gefragt
  /\ strip(suchwort) # <<>>
  /\ OhneTreffer(strip(suchwort))
  /\ ~ergebnis[1].gefunden

(* C8: the tiers are tried in the order exact, synonym, folded scan and    *)
(* the first that succeeds decides: a word that is a key returns its own   *)
(* record without a redirect marker even if it is a synonym key too, and a *)
(* word the synonym table resolves returns the redirected record.          *)
C8_TierOrder ==
  Gefragt =>
    LET r == ergebnis[1]
        q == strip(suchwort)
    IN  /\ q \in vocab_dict.keys =>
              /\ r.gefunden
              /\ r.bedeutungen = Some(GlossenVon(Eintrag(q)[1]))
              /\ r.info = Annotation(Eintrag(q))
              /\ \A c \in vocab_dict.keys : ~EndetMit(r.info, Umleitung(c))
        /\ (q \notin vocab_dict.keys /\ SynonymTrifft(q)) =>
              /\ r.gefunden
              /\ r.bedeutungen = Some(GlossenVon(Eintrag(synonyme.value[q])[1]))
              /\ EndetMit(r.info, Umleitung(synonyme.value[q]))

(* A word that is a key and also a synonym of another key has been looked  *)
(* up, and so has been answered by the exact tier.                         *)
C8_Witness ==
  LET q == strip(suchwort)
  IN  /\ Gefragt
      /\ q \in vocab_dict.keys
      /\ q \in synonyme.keys
      /\ synonyme.value[q] # q
      /\ synonyme.value[q] \in vocab_dict.keys
      /\ ergebnis[1].gefunden

(***************************************************************************)
(* Lines, stated without the code's own loops                              *)
(***************************************************************************)

(* The line starts with a decimal ordinal: a primary line. *)
HatNummer(l) == l # <<>> /\ IsDigit(l[1])

(* The number of leading digits of l. *)
Ziffern(l) ==
  CHOOSE n \in 0..Len(l) :
    (\A i \in 1..n : IsDigit(l[i])) /\ (n = Len(l) \/ ~IsDigit(l[n + 1]))

(* The value of the leading ordinal, most significant digit first. *)
RECURSIVE WertAb(_, _, _)
WertAb(l, i, n) ==
  IF i > n THEN 0 ELSE (l[i] - 48) * 10 ^ (n - i) + WertAb(l, i + 1, n)
Ordinal(l) == WertAb(l, 1, Ziffern(l))

(* The trimmed text after the ordinal. *)
Rest(l) == strip(SubSeq(l, Ziffern(l) + 1, Len(l)))

(* The maximal runs of Greek characters of s, as <<first, last>> positions. *)
Laeufe(s) ==
  LET anfang == {b \in 1..Len(s) : IsGreek(s[b]) /\ (b = 1 \/ ~IsGreek(s[b - 1]))}
      ende(b) == Min({e \in b..Len(s) : e = Len(s) \/ ~IsGreek(s[e + 1])})
  IN  {<<b, ende(b)>> : b \in anfang}
Lauf(s, r) == SubSeq(s, r[1], r[2])
Erster(s, R) == Lauf(s, CHOOSE r \in R : \A q \in R : r[1] <= q[1])
KeinArtikel(s) == {r \in Laeufe(s) : Lauf(s, r) \notin artikel}

(* A line without leading ordinal that contains a Greek run. *)
Folgezeile(l) == l # <<>> /\ ~HatNummer(l) /\ Laeufe(l) # {}

(* This step is one iteration of the loop of _parse_text; Gelesen is the   *)
(* trimmed line it has handled.                                            *)
LeseSchritt == pc = "parse" /\ Len(lines') = Len(lines) + 1
Gelesen == strip(lines'[Len(lines')])

(* The step appends exactly one entry. *)
EinNeuer == Len(result') = Len(result) + 1 /\ SubSeq(result', 1, Len(result)) = result
Neuer == result'[Len(result')]

(* The entries in the order the parse pass has produced them so far. *)
Produziert == IF pc = "done" THEN result ELSE eintraege \o result

(***************************************************************************)
(* Properties of the parser (Spec)                                         *)
(***************************************************************************)

(* C1: after a primary line with ordinal m, the k-th following line of the *)
(* same page that has no leading digit and contains a Greek run (with no   *)
(* primary line in between) produces a continuation entry with             *)
(* mainNumber = m and subNumber = k.                                       *)
C1_Continuation ==
  [][ LeseSchritt =>
        \A l \in {Gelesen} :
          \A haupt \in {{i \in 1..Len(lines) : HatNummer(strip(lines[i]))}} :
            (Folgezeile(l) /\ haupt # {}) =>
              LET p == Max(haupt)
                  m == Ordinal(strip(lines[p]))
                  k == Cardinality({i \in (p + 1)..Len(lines') :
                                      Folgezeile(strip(lines'[i]))})
              IN  EinNeuer /\ Neuer.main_num = m /\ Neuer.sub_num = k ]_vars

(* C2: every continuation entry has the mainNumber of the most recently    *)
(* seen primary entry: in the order of production within a page, and in    *)
(* the sequence parse_pdf returns, the nearest preceding entry with        *)
(* subNumber = 0 has the same mainNumber.                                  *)
NaechsterHaupt(seq) ==
  \A i \in DOMAIN seq :
    seq[i].sub_num > 0 =>
      LET vor == {j \in 1..(i - 1) : seq[j].sub_num = 0}
      IN  vor # {} /\ seq[Max(vor)].main_num = seq[i].main_num
C2_ParentLink ==
  /\ NaechsterHaupt(result)
  /\ pc = "done" => NaechsterHaupt(eintraege)

(* parse_pdf has returned a sequence the sort had to reorder, in which a   *)
(* continuation entry comes after another main number's entries.           *)
C2_Witness ==
  /\ pc = "done"
  /\ \E i, j \in DOMAIN eintraege :
       i < j /\ eintraege[j].sub_num > 0 /\ eintraege[i].main_num # eintraege[j].main_num
  /\ \E i, j \in DOMAIN eintraege :
       i < j /\ eintraege[i].sub_num > eintraege[j].sub_num

(* C3: within a run of continuation entries subNumber increases from one   *)
(* entry to the next, and every primary line resets the counter: its entry *)
(* has subNumber 0 and the first continuation after it has subNumber 1.    *)
C3_SubNumbers ==
  \A i \in DOMAIN Produziert :
    IF HatNummer(Produziert[i].original_zeile)
    THEN Produziert[i].sub_num = 0
    ELSE i > 1 /\ Produziert[i].sub_num = Produziert[i - 1].sub_num + 1

(* A primary line that followed continuation entries has been followed by  *)
(* a continuation line itself.                                             *)
C3_Witness ==
  \E i \in DOMAIN result :
    /\ i + 2 \in DOMAIN result
    /\ result[i].sub_num >= 1
    /\ result[i + 1].sub_num = 0
    /\ result[i + 2].sub_num = 1

(* C9: a primary line whose residual text has a Greek run that is no       *)
(* article produces exactly one entry with mainNumber = the ordinal,       *)
(* subNumber = 0, headword = the first Greek run that is no article, and   *)
(* rawMiddleText = the trimmed text after the ordinal.                     *)
C9_PrimaryEntry ==
  [][ LeseSchritt =>
        \A l \in {Gelesen} : HatNummer(l) =>
          \A rest \in {Rest(l)} :
            \A kein \in {KeinArtikel(rest)} : kein # {} =>
              /\ EinNeuer
              /\ Neuer.main_num = Ordinal(l)
              /\ Neuer.sub_num = 0
              /\ Neuer.griechisch = Erster(rest, kein)
              /\ Neuer.stammformen = rest ]_vars

(* The entry of a primary line that starts with an article and goes on     *)
(* with another word has just been produced.                               *)
C9_Witness ==
  /\ lines # <<>> /\ result # <<>>
  /\ LET l == strip(lines[Len(lines)])
         e == result[Len(result)]
     IN  /\ HatNummer(l)
         /\ e.original_zeile = l
         /\ Laeufe(Rest(l)) # {}
         /\ Erster(Rest(l), Laeufe(Rest(l))) \in artikel
         /\ e.griechisch \notin artikel
         /\ e.griechisch # <<>>

(* C10: a primary line whose residual text has Greek runs, all of them     *)
(* articles, produces an entry whose headword is the first Greek run,      *)
(* never the empty string.                                                 *)
C10_ArticleFallback ==
  [][ LeseSchritt =>
        \A l \in {Gelesen} : HatNummer(l) =>
          \A rest \in {Rest(l)} :
            \A alle \in {Laeufe(rest)} :
              (alle # {} /\ KeinArtikel(rest) = {}) =>
                /\ EinNeuer
                /\ Neuer.griechisch = Erster(rest, alle)
                /\ Neuer.griechisch # <<>> ]_vars

(* The entry of a primary line made of two articles has just been produced. *)
C10_Witness ==
  /\ lines # <<>> /\ result # <<>>
  /\ LET l == strip(lines[Len(lines)])
         e == result[Len(result)]
     IN  /\ HatNummer(l)
         /\ e.original_zeile = l
         /\ Cardinality(Laeufe(Rest(l))) >= 2
         /\ KeinArtikel(Rest(l)) = {}
         /\ e.griechisch \in artikel

(* The entries of all pages so far; after the return, the returned list. *)
AlleEintraege == IF pc = "done" THEN eintraege ELSE eintraege \o result

(* The text in which the Greek runs of a trimmed line are looked for: the  *)
(* text after the ordinal of a primary line, else the whole line.          *)
Betrachtet(l) == IF HatNummer(l) THEN Rest(l) ELSE l

(* The places of the primary lines among the lines read on this page. *)
HauptStellen == {i \in 1..Len(lines) : HatNummer(strip(lines[i]))}

(* C11: a line with no Greek run in the text considered for it, primary or *)
(* continuation, produces no entry: no entry stems from such a line.       *)
C11_NoGreekNoEntry ==
  \A i \in DOMAIN AlleEintraege :
    Laeufe(Betrachtet(AlleEintraege[i].original_zeile)) # {}

(* C11 amended: a line without leading ordinal and without Greek run       *)
(* produces no entry; a primary line whose residual text has no Greek run  *)
(* produces exactly one entry, with the ordinal as mainNumber, subNumber   *)
(* 0, an empty headword, resolved = false and no glosses.                  *)
C11_NoGreek ==
  [][ LeseSchritt =>
        \A l \in {Gelesen} : Laeufe(Betrachtet(l)) = {} =>
          IF HatNummer(l)
          THEN /\ EinNeuer
               /\ Neuer.main_num = Ordinal(l)
               /\ Neuer.sub_num = 0
               /\ Neuer.griechisch = <<>>
               /\ ~Neuer.gefunden
               /\ Neuer.bedeutungen = <<>>
          ELSE result' = result ]_vars

(* A primary line without Greek run has just produced its entry, on a page *)
(* where a line without ordinal and without Greek run has produced none.   *)
C11_Witness ==
  /\ Len(lines) >= 2 /\ Len(result) = 1
  /\ LET l == strip(lines[Len(lines)])
     IN  /\ HatNummer(l)
         /\ Laeufe(Rest(l)) = {}
         /\ result[1].original_zeile = l
         /\ result[1].griechisch = <<>>
  /\ \E i \in 1..(Len(lines) - 1) :
       LET v == strip(lines[i])
       IN  v # <<>> /\ ~HatNummer(v) /\ Laeufe(v) = {}

(* C12: a line without leading digit that contains a Greek run produces no *)
(* entry if and only if no primary line has been seen on the page yet;     *)
(* otherwise it produces a continuation entry of the current main number.  *)
C12_ContinuationIff ==
  [][ LeseSchritt =>
        \A l \in {Gelesen} : Folgezeile(l) =>
          \A haupt \in {HauptStellen} :
            IF haupt = {}
            THEN result' = result
            ELSE /\ EinNeuer
                 /\ Neuer.sub_num >= 1
                 /\ Neuer.main_num = Ordinal(strip(lines[Max(haupt)])) ]_vars

(* C13: the segmentation state restarts for each page: as long as a page   *)
(* has had no primary line its lines produce no entry, whatever the page   *)
(* before ended with, and the sub-numbers of a page count from that page's *)
(* own primary lines: its first entry has subNumber 0 and every            *)
(* continuation entry has the subNumber of the entry before it on the page *)
(* plus one.                                                               *)
C13_PageReset ==
  /\ HauptStellen = {} => result = <<>>
  /\ \A i \in DOMAIN result :
       \/ result[i].sub_num = 0
       \/ i > 1 /\ result[i].sub_num = result[i - 1].sub_num + 1

(* The page before ended with a continuation entry of a main number; this  *)
(* page began with a line without ordinal that has a Greek run, which      *)
(* produced nothing, and went on with a primary line.                      *)
C13_Witness ==
  /\ seite >= 2
  /\ eintraege # <<>>
  /\ eintraege[Len(eintraege)].sub_num >= 1
  /\ eintraege[Len(eintraege)].main_num >= 1
  /\ Len(lines) = 2
  /\ Folgezeile(strip(lines[1]))
  /\ HatNummer(strip(lines[2]))
  /\ Len(result) = 1
  /\ result[1].sub_num = 0

(* The pair (mainNumber, subNumber) of an entry, and the lexicographic     *)
(* order of such pairs.                                                    *)
Paar(e) == <<e.main_num, e.sub_num>>
Vor(a, b) == a[1] < b[1] \/ (a[1] = b[1] /\ a[2] < b[2])

(* C14: in the sequence parse_pdf returns no two entries at different      *)
(* places carry the same (mainNumber, subNumber), and the pair of each     *)
(* entry is strictly smaller than the pair of the entry after it.          *)
C14_StrictOrder ==
  pc = "done" =>
    /\ \A i, j \in DOMAIN eintraege : i # j => Paar(eintraege[i]) # Paar(eintraege[j])
    /\ \A i \in 1..(Len(eintraege) - 1) : Vor(Paar(eintraege[i]), Paar(eintraege[i + 1]))

(* seq is in non-decreasing order of the pairs. *)
NichtFallend(seq) ==
  \A i \in 1..(Len(seq) - 1) : ~Vor(Paar(seq[i + 1]), Paar(seq[i]))

(* b holds the same entries as a, each as often as a does. *)
Anzahl(seq, e) == Cardinality({i \in DOMAIN seq : seq[i] = e})
Umordnung(a, b) ==
  /\ Len(a) = Len(b)
  /\ \A i \in DOMAIN a : Anzahl(a, a[i]) = Anzahl(b, a[i])

(* C15: the sequence parse_pdf returns is in non-decreasing order of       *)
(* (mainNumber, subNumber), whatever the order of the pages and lines, and *)
(* is a permutation of the concatenation of the pages' parse results.      *)
C15_SortedPermutation ==
  [][ (pc = "parse" /\ pc' = "done") =>
        \A vorher \in {eintraege \o result} :
          \A nachher \in {eintraege'} :
            NichtFallend(nachher) /\ Umordnung(vorher, nachher) ]_vars

(* parse_pdf has returned a sequence in which the last entry of the last   *)
(* page stands before an entry of an earlier page.                         *)
C15_Witness ==
  /\ pc = "done"
  /\ seite >= 2
  /\ result # <<>>
  /\ \E i \in DOMAIN eintraege :
       /\ \A j \in DOMAIN result : result[j] # eintraege[i]
       /\ Vor(Paar(result[Len(result)]), Paar(eintraege[i]))
  /\ \E i \in DOMAIN eintraege : eintraege[i].sub_num >= 1

(* C20: every entry the parser produces has a mainNumber that is a         *)
(* positive integer, whatever decimal ordinal its primary line starts with. *)
C20_PositiveMain ==
  \A i \in DOMAIN AlleEintraege : AlleEintraege[i].main_num >= 1

(* C22: entries are created at most once per source line and are never    *)
(* merged or deleted: a step that reads a line leaves the entries so far   *)
(* in place and adds at most one entry, the entry of that line, and none   *)
(* for an empty line; a new page keeps the entries of the pages before;    *)
(* and the sequence parse_pdf returns holds every entry created, each as   *)
(* often as it was created.                                                *)
C22_OncePerLine ==
  [][ pc = "parse" =>
        \A alt \in {eintraege \o result} :
          \A jetzt \in {IF pc' = "done" THEN eintraege' ELSE eintraege' \o result'} :
            IF pc' = "done" THEN Umordnung(alt, jetzt)
            ELSE IF LeseSchritt
            THEN \/ jetzt = alt
                 \/ /\ Len(jetzt) = Len(alt) + 1
                    /\ SubSeq(jetzt, 1, Len(alt)) = alt
                    /\ Gelesen # <<>>
                    /\ jetzt[Len(jetzt)].original_zeile = Gelesen
            ELSE jetzt = alt ]_vars

(* parse_pdf has returned the entries of two pages on which some line has  *)
(* produced no entry and the same line has twice produced one.             *)
C22_Witness ==
  /\ pc = "done"
  /\ seite = 2
  /\ result # <<>>
  /\ Len(eintraege) > Len(result)
  /\ Len(eintraege) < gelesen
  /\ \E i, j \in DOMAIN eintraege : i # j /\ eintraege[i] = eintraege[j]

(* C23: an empty or whitespace-only line is skipped: it produces no entry  *)
(* and leaves currentMainNumber and the continuation counter as they are.  *)
C23_BlankLine ==
  [][ LeseSchritt =>
        \A l \in {Gelesen} : l = <<>> =>
          /\ result' = result
          /\ current_main' = current_main
          /\ next_sub' = next_sub ]_vars

(* A blank line stands between a primary line and its continuation line,   *)
(* which has got the sub-number 1.                                         *)
C23_Witness ==
  /\ Len(lines) = 3
  /\ HatNummer(strip(lines[1]))
  /\ lines[2] # <<>> /\ strip(lines[2]) = <<>>
  /\ Folgezeile(strip(lines[3]))
  /\ Len(result) = 2
  /\ result[2].main_num = result[1].main_num
  /\ result[2].sub_num = 1

(* C28: a line without ordinal that is discarded for want of a Greek run   *)
(* leaves currentMainNumber and the continuation counter as they are:      *)
(* currentMainNumber is the ordinal of the page's last primary line, the   *)
(* counter is the number n of continuation entries produced since, and     *)
(* these carry the sub-numbers 1, 2, ..., n in this order, whatever lines  *)
(* have been discarded in between.                                         *)
C28_DiscardKeepsCounters ==
  LET haupt == {i \in DOMAIN result : result[i].sub_num = 0}
      n == IF haupt = {} THEN Len(result) ELSE Len(result) - Max(haupt)
  IN  /\ current_main = IF HauptStellen = {} THEN 0
                        ELSE Ordinal(strip(lines[Max(HauptStellen)]))
      /\ next_sub = n
      /\ \A j \in 1..n : result[Len(result) - n + j].sub_num = j

(* A line without Greek run has been discarded between a primary line and  *)
(* a continuation line, and another one after it.                          *)
C28_Witness ==
  /\ Len(lines) = 4
  /\ HatNummer(strip(lines[1]))
  /\ \A i \in {2, 4} :
       strip(lines[i]) # <<>> /\ ~HatNummer(strip(lines[i])) /\ Laeufe(strip(lines[i])) = {}
  /\ Folgezeile(strip(lines[3]))
  /\ Len(result) = 2
  /\ result[2].sub_num = 1
  /\ next_sub = 1

(* C27: for every continuation entry produced there is a primary entry     *)
(* (subNumber 0) with the same mainNumber among the entries, during the    *)
(* parse pass and in the sequence parse_pdf returns; so a non-empty output *)
(* holds a primary entry, and the statistics of main divide by a number    *)
(* that is not zero.                                                       *)
C27_PrimaryExists ==
  /\ \A i \in DOMAIN AlleEintraege :
       AlleEintraege[i].sub_num > 0 =>
         \E j \in DOMAIN AlleEintraege :
           /\ AlleEintraege[j].sub_num = 0
           /\ AlleEintraege[j].main_num = AlleEintraege[i].main_num
  /\ AlleEintraege # <<>> => \E j \in DOMAIN AlleEintraege : AlleEintraege[j].sub_num = 0
  /\ (pc = "done" /\ eintraege # <<>>) => statistik(eintraege) = "none"

(* parse_pdf has returned a continuation entry together with its primary   *)
(* entry and a primary entry of another main number.                       *)
C27_Witness ==
  /\ pc = "done"
  /\ \E i, j, k \in DOMAIN eintraege :
       /\ eintraege[i].sub_num > 0
       /\ eintraege[j].sub_num = 0
       /\ eintraege[j].main_num = eintraege[i].main_num
       /\ eintraege[k].sub_num = 0
       /\ eintraege[k].main_num # eintraege[i].main_num

(***************************************************************************)
(* Properties of the sort (SpecSort)                                       *)
(***************************************************************************)

(* C16: the sort applied to a sequence that is already in order of         *)
(* (mainNumber, subNumber) returns the same sequence: no two entries swap  *)
(* their places, entries with equal pairs included.                        *)
C16_SortIdempotent ==
  [][ NichtFallend(eintraege) => eintraege' = eintraege ]_vars

(* The sort has been applied to a sequence in order in which two different *)
(* entries with the same pair stand next to each other.                    *)
C16_Witness ==
  /\ pc = "resorted"
  /\ NichtFallend(eintraege)
  /\ \E i \in 1..(Len(eintraege) - 1) :
       /\ Paar(eintraege[i]) = Paar(eintraege[i + 1])
       /\ eintraege[i] # eintraege[i + 1]
  /\ \E i \in 1..(Len(eintraege) - 1) :
       Vor(Paar(eintraege[i]), Paar(eintraege[i + 1]))

(* The words of the modelled lines that a dictionary key matches through   *)
(* the exact, the synonym or the folded tier.                              *)
Aufloesbar ==
  {w \in Woerter : w \in vocab_dict.keys \/ SynonymTrifft(w) \/ FaltTreffer(w) # {}}

(* C17: throughout the parse pass and at its end, an entry has             *)
(* resolved = true only if its headword is not empty and a dictionary key  *)
(* matches the headword through the exact, the synonym or the folded tier; *)
(* an entry with an empty headword has resolved = false and no glosses.    *)
C17_ResolvedOnlyIfMatched ==
  \A i \in DOMAIN AlleEintraege :
    LET e == AlleEintraege[i]
    IN  /\ e.gefunden => (e.griechisch # <<>> /\ e.griechisch \in Aufloesbar)
        /\ e.griechisch = <<>> => (~e.gefunden /\ e.bedeutungen = <<>>)

(* parse_pdf has returned an entry that is resolved, an entry whose        *)
(* headword no key matches, and an entry with an empty headword.           *)
C17_Witness ==
  /\ pc = "done"
  /\ \E i \in DOMAIN eintraege : eintraege[i].gefunden /\ eintraege[i].bedeutungen # <<>>
  /\ \E i \in DOMAIN eintraege :
       /\ eintraege[i].griechisch # <<>>
       /\ eintraege[i].griechisch \notin Aufloesbar
       /\ ~eintraege[i].gefunden
  /\ \E i \in DOMAIN eintraege : eintraege[i].griechisch = <<>>

(* C29: a word that is a key of the synonym table whose canonical headword *)
(* is no key of the dictionary does not make finde_bedeutung fail and does *)
(* not end the lookup at the synonym tier: the result carries no redirect  *)
(* marker, and it is found = false with no glosses and an empty annotation *)
(* exactly when no key of the dictionary folds to the form the word folds  *)
(* to; otherwise it is the record of a key with that folded form.          *)
C29_DanglingSynonym ==
  (/\ Gefragt
   /\ strip(suchwort) \in synonyme.keys
   /\ synonyme.value[strip(suchwort)] \notin vocab_dict.keys) =>
    LET q == strip(suchwort)
        r == ergebnis[1]
    IN  /\ r.exc = "none"
        /\ ~Enthaelt(r.info, Umleitung(synonyme.value[q]))
        /\ IF FaltTreffer(q) = {}
           THEN ~r.gefunden /\ r.bedeutungen = None /\ r.info = <<>>
           ELSE /\ r.gefunden
                /\ \E i \in FaltTreffer(q) :
                     /\ r.bedeutungen = Some(GlossenVon(vocab_literal[i][2][1]))
                     /\ r.info = strip(vocab_literal[i][2][2] \o <<32>> \o vocab_literal[i][2][3])

(* A synonym key that is no key of the dictionary, and whose canonical     *)
(* headword is none either, has been looked up and was not found.          *)
C29_Witness ==
  /\ Gefragt
  /\ strip(suchwort) \in synonyme.keys
  /\ strip(suchwort) \notin vocab_dict.keys
  /\ synonyme.value[strip(suchwort)] \notin vocab_dict.keys
  /\ FaltTreffer(strip(suchwort)) = {}
  /\ ~ergebnis[1].gefunden

(***************************************************************************)
(* Properties of the static tables and of _remove_accents                  *)
(***************************************************************************)

(* C18: every value of the synonym table is a key of the dictionary: the   *)
(* canonical headword an alternate spelling is redirected to has a record. *)
C18_SynonymTargets ==
  (Gefragt /\ strip(suchwort) \in synonyme.keys) =>
    synonyme.value[strip(suchwort)] \in vocab_dict.keys

(* The small Greek vowels that carry an accent, a breathing, a diaeresis,  *)
(* a length mark or an iota subscript, in any combination, as ranges of    *)
(* code points <<first, last, base vowel>> of the Unicode blocks Greek and *)
(* Greek Extended.                                                         *)
Vokalbereiche ==
  { <<7936, 7943, 945>>, <<8048, 8049, 945>>, <<8064, 8071, 945>>, <<8112, 8116, 945>>,
    <<8118, 8119, 945>>, <<940, 940, 945>>,                                    \* α
    <<7952, 7957, 949>>, <<8050, 8051, 949>>, <<941, 941, 949>>,               \* ε
    <<7968, 7975, 951>>, <<8052, 8053, 951>>, <<8080, 8087, 951>>, <<8130, 8132, 951>>,
    <<8134, 8135, 951>>, <<942, 942, 951>>,                                    \* η
    <<7984, 7991, 953>>, <<8054, 8055, 953>>, <<8144, 8147, 953>>, <<8150, 8151, 953>>,
    <<943, 943, 953>>, <<970, 970, 953>>, <<912, 912, 953>>,                   \* ι
    <<8000, 8005, 959>>, <<8056, 8057, 959>>, <<972, 972, 959>>,               \* ο
    <<8016, 8023, 965>>, <<8058, 8059, 965>>, <<8160, 8163, 965>>, <<8166, 8167, 965>>,
    <<973, 973, 965>>, <<971, 971, 965>>, <<944, 944, 965>>,                   \* υ
    <<8032, 8039, 969>>, <<8060, 8061, 969>>, <<8096, 8103, 969>>, <<8178, 8180, 969>>,
    <<8182, 8183, 969>>, <<974, 974, 969>> }                                   \* ω
Akzentvokal(c) == \E b \in Vokalbereiche : c \in b[1]..b[2]
Grundvokal(c) == (CHOOSE b \in Vokalbereiche : c \in b[1]..b[2])[3]

(* The single call of _remove_accents has returned. *)
Gefaltet == pc = "falte" /\ ergebnis # <<>>

(* C19: _remove_accents maps every accented or breathing-marked Greek      *)
(* vowel, combinations such as breathing plus circumflex and the iota      *)
(* subscript forms included, to its base vowel, and leaves every character *)
(* that is not in its accent map as it is.                                 *)
C19_FoldsEveryAccent ==
  Gefaltet =>
    /\ Len(ergebnis[1]) = Len(suchwort)
    /\ \A i \in 1..Len(suchwort) :
         /\ Akzentvokal(suchwort[i]) => ergebnis[1][i] = Grundvokal(suchwort[i])
         /\ suchwort[i] \notin accent_keys => ergebnis[1][i] = suchwort[i]

(* C30: _remove_accents is idempotent and keeps the length: folding the    *)
(* folded string gives the folded string again and the result has as many  *)
(* characters as the argument, because no character the accent map         *)
(* produces is a key of the map.                                           *)
C30_FoldIdempotent ==
  Gefaltet =>
    /\ remove_accents(ergebnis[1]) = ergebnis[1]
    /\ Len(ergebnis[1]) = Len(suchwort)
    /\ \A i \in DOMAIN ergebnis[1] : ergebnis[1][i] \notin accent_keys

(* A word of several characters, some of them keys of the accent map, has  *)
(* been folded.                                                            *)
C30_Witness ==
  /\ Gefaltet
  /\ Len(suchwort) > 1
  /\ \E i \in DOMAIN suchwort : suchwort[i] \in accent_keys
  /\ ergebnis[1] # suchwort

(***************************************************************************)
(* Properties of the correction loop and of the export (SpecMain)          *)
(***************************************************************************)

(* The fields of an entry a correction has no business with. *)
Rahmen(e) == <<e.main_num, e.sub_num, e.griechisch, e.stammformen, e.original_zeile>>

(* The glosses "Held", "Mann" the typed text stands for. *)
HeldMann == << <<72, 101, 108, 100>>, <<77, 97, 110, 110>> >>

(* C21: a correction changes only the glosses and the resolved flag of the *)
(* entry it is applied to: that entry keeps its mainNumber, subNumber,     *)
(* headword, rawMiddleText and sourceLine, every other entry stays as it   *)
(* is, and the sequence handed to the export holds the entries of the      *)
(* parse output in the same order.                                         *)
C21_CorrectionFrame ==
  [][ pc = "korrektur" =>
        \A k \in {Len(korrigierte) + 1} :
          /\ Len(eintraege') = Len(eintraege)
          /\ \A j \in DOMAIN eintraege :
               /\ Rahmen(eintraege'[j]) = Rahmen(eintraege[j])
               /\ j # k => eintraege'[j] = eintraege[j]
          /\ Len(korrigierte') <= Len(eintraege')
          /\ \A j \in DOMAIN korrigierte' : korrigierte'[j] = eintraege'[j]
          /\ pc' = "export" => korrigierte' = eintraege' ]_vars

(* The export has been handed two entries of which the first has been      *)
(* corrected and the second has not.                                       *)
C21_Witness ==
  /\ pc = "export"
  /\ Len(korrigierte) = 2
  /\ korrigierte[1].bedeutungen = HeldMann
  /\ korrigierte[2].bedeutungen # HeldMann
  /\ korrigierte[2].sub_num = 1

(* The row starts with the decimal numeral of n. *)
Numeral(text, n) ==
  /\ text # <<>>
  /\ \A i \in DOMAIN text : IsDigit(text[i])
  /\ Ordinal(text) = n
  /\ Len(text) > 1 => text[1] # 48

(* C25: the export renders the mainNumber only on the rows of entries with *)
(* subNumber 0 and leaves it blank on continuation rows, indents the       *)
(* headword of continuation rows, and renders the not-found marker in the  *)
(* gloss column exactly for the entries whose resolved flag is false; the  *)
(* other rows show the glosses joined by "; ".                             *)
C25_ExportRows ==
  pc = "export" =>
    /\ Len(data) = Len(korrigierte) + 1
    /\ \A i \in DOMAIN korrigierte :
         LET e == korrigierte[i]
             row == data[i + 1]
         IN  /\ IF e.sub_num = 0 THEN Numeral(row[1], e.main_num) ELSE row[1] = <<>>
             /\ row[2] = IF e.sub_num = 0 THEN e.griechisch ELSE <<32, 32>> \o e.griechisch
             /\ row[4] = nicht_gefunden <=> ~e.gefunden
             /\ e.gefunden => row[4] = join(e.bedeutungen)

(* A primary entry that is not resolved and a resolved continuation entry  *)
(* have been exported.                                                     *)
C25_Witness ==
  /\ pc = "export"
  /\ Len(korrigierte) = 2
  /\ korrigierte[1].sub_num = 0 /\ ~korrigierte[1].gefunden
  /\ korrigierte[2].sub_num = 1 /\ korrigierte[2].gefunden
  /\ data[2][4] = nicht_gefunden
  /\ data[3][1] = <<>>

(* C26: in every state after the parse pass and after any corrections an   *)
(* entry is resolved if and only if its gloss list is not empty; a         *)
(* correction never takes an entry from resolved back to unresolved; and a *)
(* correction with empty text leaves the entry as it is.                   *)
C26_ResolvedIffGlosses ==
  [][ /\ \A j \in DOMAIN eintraege' :
           eintraege'[j].gefunden <=> eintraege'[j].bedeutungen # <<>>
      /\ \A j \in DOMAIN korrigierte' :
           korrigierte'[j].gefunden <=> korrigierte'[j].bedeutungen # <<>>
      /\ pc = "korrektur" =>
           /\ \A j \in DOMAIN eintraege : eintraege[j].gefunden => eintraege'[j].gefunden
           /\ (korrigierte' # korrigierte /\ neu' = <<>>) => eintraege' = eintraege ]_vars

(* An entry the parse pass left unresolved has been corrected and is       *)
(* resolved, and the entry after it has met an empty text area and is      *)
(* still unresolved.                                                       *)
C26_Witness ==
  /\ pc = "korrektur"
  /\ Len(korrigierte) = 2
  /\ korrigierte[1].griechisch # <<>>
  /\ korrigierte[1].griechisch \notin Aufloesbar
  /\ korrigierte[1].gefunden
  /\ korrigierte[1].bedeutungen = HeldMann
  /\ neu = <<>>
  /\ ~korrigierte[2].gefunden

====
